---- MODULE Spec2Model ----
(***************************************************************************)
(* A model of the Lox tree-walking interpreter: the pipeline of Lox::run   *)
(* (scanner result, parser result, Resolver, Interpreter), the environment *)
(* chain, and the REPL / file drivers of main.rs.                          *)
(*                                                                         *)
(* The resolver and the evaluator are recursive visitors in the source;    *)
(* they are operators here that thread the visitor's state (a record)      *)
(* through the traversal and return it with the Result of the visit.       *)
(* Expression nodes are identified by their position (line number and      *)
(* path in the tree), which stands for the Rc pointer the source hashes.   *)
(***************************************************************************)
EXTENDS Integers, Sequences, FiniteSets, TLC

\* ------------------------------------------------------------- bounds
\* REPL lines run by one process.
MaxLines == 3
\* Loop iterations plus calls one run may make before the model stops it.
MaxSteps == 8
\* Uses of the closures a closure program makes after their scope exited.
MaxUses == 3
\* Pieces of text a source given to the scanner is made of.
MaxPieces == 5
\* Tokens before the Eof of a token vector made of arbitrary tokens.
MaxTokens == 3

\* ------------------------------------------------------------- values
\* Interpreter.globals: environments are named by their index in the heap
\* of environments (see below), and the globals are the first.
GlobalsId == 1

\* object.rs: enum Object.  Numbers are small integers here.
Nil == [k |-> "Nil"]
Bool(b) == [k |-> "Bool", b |-> b]
Number(n) == [k |-> "Number", n |-> n]
Str(s) == [k |-> "Str", s |-> s]
IllegalOperation == [k |-> "IllegalOperation"]
\* functions_native.rs NativeClock, which Interpreter::new wraps in
\* Object::Func: a callable of arity 0 with no declaration and no closure.
NativeClock ==
  [k |-> "Func", native |-> TRUE, decl |-> <<>>, name |-> "clock",
   params |-> <<>>, body |-> <<>>, closure |-> 0, is_initializer |-> FALSE]
\* A LoxFunction::new that does not keep the environment it is given: the
\* closure is the globals.
LoxFunction_closes_over_globals(decl, stmt, closure) ==
  [k |-> "Func", native |-> FALSE, decl |-> decl, name |-> stmt.name,
   params |-> stmt.params, body |-> stmt.body, closure |-> GlobalsId,
   is_initializer |-> FALSE]

\* functions_lox.rs LoxFunction::new: the declaration (shared by reference,
\* named here by its position `decl`) and the closure environment.
LoxFunction(decl, stmt, closure) ==
  [k |-> "Func", native |-> FALSE, decl |-> decl, name |-> stmt.name,
   params |-> stmt.params, body |-> stmt.body, closure |-> closure,
   is_initializer |-> FALSE]

\* LoxFunction::new(declaration, closure, is_initializer), as the
\* methods of a class are made.
LoxFunction_method(decl, stmt, closure, is_initializer) ==
  [LoxFunction(decl, stmt, closure) EXCEPT !.is_initializer = is_initializer]

\* lox_instance.rs LoxInstance::new, wrapped in Object::Instance.
Instance(klass) == [k |-> "Instance", klass |-> klass]

\* error.rs: enum LoxResult, plus the Return signal functions_lox.rs matches.
RuntimeError(msg) == [kind |-> "RuntimeError", message |-> msg, value |-> Nil]
BreakSignal == [kind |-> "Break", message |-> "", value |-> Nil]
ReturnValue(v) == [kind |-> "ReturnValue", message |-> "", value |-> v]
\* A Rust panic (an unwrap of None): not a LoxResult, nothing catches it.
Panic(msg) == [kind |-> "Panic", message |-> msg, value |-> Nil]
\* The model's own stop of a run that used up MaxSteps.
OutOfSteps == [kind |-> "OutOfSteps", message |-> "", value |-> Nil]
NoError == [kind |-> "None", message |-> "", value |-> Nil]

\* Result<Object, LoxResult> together with the state the visit left.
Ok(st, v) == [st |-> st, ok |-> TRUE, v |-> v, e |-> NoError]
Err(st, e) == [st |-> st, ok |-> FALSE, v |-> Nil, e |-> e]

\* ------------------------------------------------------- environments
\* environment.rs: struct Environment.  Environments live in a heap (a
\* sequence); `enclosing` is an index into it, 0 for None.
Environment_new == [values |-> [n \in {} |-> Nil], enclosing |-> 0]
Environment_new_enclosing(enclosing) ==
  [values |-> [n \in {} |-> Nil], enclosing |-> enclosing]

\* HashMap::insert on a map modelled as a function.
MapInsert(m, key, value) ==
  [n \in DOMAIN m \cup {key} |-> IF n = key THEN value ELSE m[n]]

\* Environment::define on environment `id` of the heap.
Environment_define(heap, id, name, value) ==
  [heap EXCEPT ![id].values = MapInsert(@, name, value)]

RECURSIVE Environment_get_or_nil(_, _, _)
\* An Environment::get that falls back to nil for a name no environment
\* of the chain holds.
Environment_get_or_nil(heap, id, name) ==
  IF name \in DOMAIN heap[id].values
    THEN [found |-> TRUE, v |-> heap[id].values[name]]
    ELSE IF heap[id].enclosing # 0
      THEN Environment_get_or_nil(heap, heap[id].enclosing, name)
      ELSE [found |-> TRUE, v |-> Nil]

RECURSIVE Environment_get(_, _, _)
\* Environment::get: the value of `name` in `id` or the nearest ancestor;
\* [found |-> FALSE] stands for the Undefined variable error.
Environment_get(heap, id, name) ==
  IF name \in DOMAIN heap[id].values
    THEN [found |-> TRUE, v |-> heap[id].values[name]]
    ELSE IF heap[id].enclosing # 0
      THEN Environment_get(heap, heap[id].enclosing, name)
      ELSE [found |-> FALSE, v |-> Nil]

RECURSIVE Ancestor(_, _, _)
\* The environment `distance` parents up from `id`; 0 when the chain ends
\* first (the unwrap of `enclosing` would panic).
Ancestor(heap, id, distance) ==
  IF id = 0 THEN 0
  ELSE IF distance = 0 THEN id
  ELSE Ancestor(heap, heap[id].enclosing, distance - 1)

\* Environment::get_at: both unwraps panic when the binding is missing.
Environment_get_at(heap, id, distance, name) ==
  LET a == Ancestor(heap, id, distance) IN
  IF a # 0 /\ name \in DOMAIN heap[a].values
    THEN [found |-> TRUE, v |-> heap[a].values[name]]
    ELSE [found |-> FALSE, v |-> Nil]

\* An assign that defines the name in the environment it is called on.
Environment_assign_defines(heap, id, name, value) ==
  [found |-> TRUE, heap |-> Environment_define(heap, id, name, value)]

RECURSIVE Environment_assign(_, _, _, _)
\* Environment::assign: update the nearest environment holding `name`.
Environment_assign(heap, id, name, value) ==
  IF name \in DOMAIN heap[id].values
    THEN [found |-> TRUE, heap |-> [heap EXCEPT ![id].values[name] = value]]
    ELSE IF heap[id].enclosing # 0
      THEN Environment_assign(heap, heap[id].enclosing, name, value)
      ELSE [found |-> FALSE, heap |-> heap]

\* Environment::assign_at: inserts at the ancestor (no presence check);
\* the unwrap of a missing parent panics.  `held` tells whether the
\* ancestor held the name before the insert.
Environment_assign_at(heap, id, distance, name, value) ==
  LET a == Ancestor(heap, id, distance) IN
  IF a # 0
    THEN [found |-> TRUE, held |-> name \in DOMAIN heap[a].values,
          heap |-> Environment_define(heap, a, name, value)]
    ELSE [found |-> FALSE, held |-> FALSE, heap |-> heap]

\* ---------------------------------------------------------------- AST
\* gen-ast.rs: the Expr and Stmt productions, as records tagged by `t`.
NoExpr == [t |-> "None"]
Assign(name, value) == [t |-> "Assign", name |-> name, value |-> value]
Binary(left, operator, right) ==
  [t |-> "Binary", left |-> left, operator |-> operator, right |-> right]
Call(callee, arguments) ==
  [t |-> "Call", callee |-> callee, arguments |-> arguments]
Grouping(expression) == [t |-> "Grouping", expression |-> expression]
Literal(value) == [t |-> "Literal", value |-> value]
Logical(left, operator, right) ==
  [t |-> "Logical", left |-> left, operator |-> operator, right |-> right]
Unary(operator, right) == [t |-> "Unary", operator |-> operator, right |-> right]
Variable(name) == [t |-> "Variable", name |-> name]

NoStmt == [t |-> "None"]
Block(statements) == [t |-> "Block", statements |-> statements]
Expression(expression) == [t |-> "Expression", expression |-> expression]
Function(name, params, body) ==
  [t |-> "Function", name |-> name, params |-> params, body |-> body]
If(condition, then_branch, else_branch) ==
  [t |-> "If", condition |-> condition, then_branch |-> then_branch,
   else_branch |-> else_branch]
PrintStmt(expression) == [t |-> "Print", expression |-> expression]
Return(value) == [t |-> "Return", value |-> value]
Var(name, initializer) == [t |-> "Var", name |-> name, initializer |-> initializer]
While(condition, body) == [t |-> "While", condition |-> condition, body |-> body]
Break == [t |-> "Break"]

\* The identity of a node: the path of its parent extended by its place
\* among the parent's children (the Rc pointer of the source).
Child(path, i) == Append(path, i)

\* ----------------------------------------------------------- resolver
\* An Interpreter::resolve that records one scope more than it is given.
Interpreter_resolve_one_more(locals, expr, depth) ==
  MapInsert(locals, expr, depth + 1)

\* interpreter.rs Interpreter::resolve: locals.insert(expr, depth).
Interpreter_resolve(locals, expr, depth) == MapInsert(locals, expr, depth)

\* resolver.rs Resolver::new.  `locals` is the interpreter's side-table the
\* resolver writes through its reference; `log` is a history of the
\* resolve_local calls (expression, name, scope stack at the call);
\* `reported` holds the messages written to stderr.
Resolver_new(locals) ==
  [scopes |-> <<>>, in_loop |-> FALSE, had_error |-> FALSE,
   current_function |-> "None", locals |-> locals, log |-> <<>>,
   reported |-> <<>>]

ROk(rs) == [rs |-> rs, ok |-> TRUE]
RErr(rs) == [rs |-> rs, ok |-> FALSE]

begin_scope(rs) == [rs EXCEPT !.scopes = Append(@, [n \in {} |-> FALSE])]
end_scope(rs) == [rs EXCEPT !.scopes = SubSeq(@, 1, Len(@) - 1)]

\* Resolver::resolve_error: set had_error and report (error_runtime
\* writes the message to stderr).
resolve_error(rs, message) ==
  [rs EXCEPT !.had_error = TRUE, !.reported = Append(@, message)]

\* Resolver::declare.
declare(rs, name) ==
  IF rs.scopes = <<>> THEN rs
  ELSE LET top == Len(rs.scopes)
           r1 == IF name \in DOMAIN rs.scopes[top] THEN resolve_error(rs, "A variable with the same name already exists in this scope")
                 ELSE rs
       IN [r1 EXCEPT !.scopes[top] = MapInsert(@, name, FALSE)]

\* Resolver::define.
define(rs, name) ==
  IF rs.scopes = <<>> THEN rs
  ELSE LET top == Len(rs.scopes) IN
       IF name \in DOMAIN rs.scopes[top]
         THEN [rs EXCEPT !.scopes[top] = MapInsert(@, name, TRUE)]
         ELSE rs

RECURSIVE resolve_local_loop(_, _, _, _, _)
\* The loop of Resolver::resolve_local from index `scope` of
\* scopes.iter().rev().enumerate(): every scope that holds the name calls
\* interpreter.resolve; the loop has no break.
resolve_local_loop(scopes, locals, expr, name, scope) ==
  IF scope >= Len(scopes) THEN locals
  ELSE resolve_local_loop(
         scopes,
         IF name \in DOMAIN scopes[Len(scopes) - scope]
           THEN Interpreter_resolve(locals, expr, scope)
           ELSE locals,
         expr, name, scope + 1)

\* Resolver::resolve_local.
resolve_local(rs, expr, name) ==
  [rs EXCEPT !.locals = resolve_local_loop(rs.scopes, @, expr, name, 0),
             !.log = Append(@, [expr |-> expr, name |-> name, scopes |-> rs.scopes])]

RECURSIVE declare_params(_, _, _)
\* The parameter loop of Resolver::resolve_function.
declare_params(rs, params, i) ==
  IF i > Len(params) THEN rs
  ELSE declare_params(define(declare(rs, params[i]), params[i]), params, i + 1)

\* The traversal is recursive.  Each operator below hands the Result of a
\* visit to the operator that models what the source does with it (the `?`
\* and the statements after it), named after the visitor with a suffix.
RECURSIVE Resolver_resolve(_, _, _, _)
RECURSIVE resolve_stmt(_, _, _)
RECURSIVE resolve_expr(_, _, _)
RECURSIVE resolve_args(_, _, _, _)

\* Resolver::resolve, after statement i - 1 gave r: `?`, then the rest.
Resolver_resolve_next(r, stmts, path, i) ==
  IF r.ok THEN Resolver_resolve(r.rs, stmts, path, i) ELSE r

\* Resolver::resolve: the statements from index i on, stopping at an Err.
Resolver_resolve(rs, stmts, path, i) ==
  IF i > Len(stmts) THEN ROk(rs)
  ELSE Resolver_resolve_next(resolve_stmt(rs, stmts[i], Child(path, i)),
                             stmts, path, i + 1)

\* Resolver::resolve_function, after the body: end_scope and restore
\* current_function (in_loop is not touched).
resolve_function_end(r, enclosing_function) ==
  IF r.ok
    THEN ROk([end_scope(r.rs) EXCEPT !.current_function = enclosing_function])
    ELSE r

\* Resolver::resolve_function.
resolve_function(rs, function, path, ftype) ==
  resolve_function_end(
    Resolver_resolve(
      declare_params(begin_scope([rs EXCEPT !.current_function = ftype]),
                     function.params, 1),
      function.body, path, 1),
    rs.current_function)

\* Resolver::visit_block_stmt, after the statements: end_scope.
resolver_block_end(r) == IF r.ok THEN ROk(end_scope(r.rs)) ELSE r

\* Resolver::visit_if_stmt, after the then branch: the else branch, if any.
resolver_if_else(r, stmt, path) ==
  IF ~r.ok \/ stmt.else_branch.t = "None" THEN r
  ELSE resolve_stmt(r.rs, stmt.else_branch, Child(path, 3))

\* Resolver::visit_if_stmt, after the condition.
resolver_if_then(r, stmt, path) ==
  IF ~r.ok THEN r
  ELSE resolver_if_else(resolve_stmt(r.rs, stmt.then_branch, Child(path, 2)),
                        stmt, path)

\* Resolver::visit_var_stmt, after the initializer: define.
resolver_var_define(r, name) == IF r.ok THEN ROk(define(r.rs, name)) ELSE r

\* Resolver::visit_while_stmt, after the body: restore in_loop.
resolver_while_end(r, nesting_prev) ==
  IF r.ok THEN ROk([r.rs EXCEPT !.in_loop = nesting_prev]) ELSE r

\* Resolver::visit_while_stmt, after the condition: the body.
resolver_while_body(r, stmt, path, nesting_prev) ==
  IF ~r.ok THEN r
  ELSE resolver_while_end(resolve_stmt(r.rs, stmt.body, Child(path, 2)),
                          nesting_prev)

\* Resolver::visit_return_stmt.
resolver_return(rs, stmt, path) ==
  IF stmt.value.t = "None" THEN ROk(rs)
  ELSE resolve_expr(rs, stmt.value, Child(path, 1))

\* Resolver as StmtVisitor: visit_block_stmt ... visit_break_stmt.
resolve_stmt(rs, stmt, path) ==
  CASE stmt.t = "Block" ->
         resolver_block_end(
           Resolver_resolve(begin_scope(rs), stmt.statements, path, 1))
    [] stmt.t = "Expression" -> resolve_expr(rs, stmt.expression, Child(path, 1))
    [] stmt.t = "Function" ->
         resolve_function(define(declare(rs, stmt.name), stmt.name), stmt, path,
                          "Function")
    [] stmt.t = "If" ->
         resolver_if_then(resolve_expr(rs, stmt.condition, Child(path, 1)),
                          stmt, path)
    [] stmt.t = "Print" -> resolve_expr(rs, stmt.expression, Child(path, 1))
    [] stmt.t = "Return" ->
         resolver_return(
           IF rs.current_function = "None"
             THEN resolve_error(rs, "Can't return from top-level code")
             ELSE rs,
           stmt, path)
    [] stmt.t = "Var" ->
         IF stmt.initializer.t = "None"
           THEN ROk(define(declare(rs, stmt.name), stmt.name))
           ELSE resolver_var_define(
                  resolve_expr(declare(rs, stmt.name), stmt.initializer,
                               Child(path, 1)),
                  stmt.name)
    [] stmt.t = "While" ->
         resolver_while_body(
           resolve_expr([rs EXCEPT !.in_loop = TRUE], stmt.condition,
                        Child(path, 1)),
           stmt, path, rs.in_loop)
    [] stmt.t = "Break" ->
         ROk(IF ~rs.in_loop
               THEN resolve_error(rs, "break statements are not allowed here")
               ELSE rs)

\* The argument loop of Resolver::visit_call_expr, after argument i - 1.
resolve_args_next(r, arguments, path, i) ==
  IF r.ok THEN resolve_args(r.rs, arguments, path, i) ELSE r

\* The argument loop of Resolver::visit_call_expr.
resolve_args(rs, arguments, path, i) ==
  IF i > Len(arguments) THEN ROk(rs)
  ELSE resolve_args_next(resolve_expr(rs, arguments[i], Child(path, i + 1)),
                         arguments, path, i + 1)

\* Resolver::visit_assign_expr, after the value: resolve_local.
resolver_assign_local(r, path, name) ==
  IF r.ok THEN ROk(resolve_local(r.rs, path, name)) ELSE r

\* Resolver::visit_binary_expr and visit_logical_expr, after the left.
resolver_right(r, expr, path) ==
  IF r.ok THEN resolve_expr(r.rs, expr.right, Child(path, 2)) ELSE r

\* Resolver::visit_call_expr, after the callee.
resolver_call_args(r, expr, path) ==
  IF r.ok THEN resolve_args(r.rs, expr.arguments, path, 1) ELSE r

\* Resolver::visit_variable_expr.
resolver_variable(rs, expr, path) ==
  IF /\ rs.scopes # <<>>
     /\ expr.name \in DOMAIN rs.scopes[Len(rs.scopes)]
     /\ rs.scopes[Len(rs.scopes)][expr.name] = FALSE
    THEN RErr([rs EXCEPT !.reported =
                 Append(@, "Can't read local variable its own initializer")])
    ELSE ROk(resolve_local(rs, path, expr.name))

\* Resolver as ExprVisitor: visit_assign_expr ... visit_variable_expr.
resolve_expr(rs, expr, path) ==
  CASE expr.t = "Assign" ->
         resolver_assign_local(resolve_expr(rs, expr.value, Child(path, 1)),
                               path, expr.name)
    [] expr.t = "Literal" -> ROk(rs)
    [] expr.t \in {"Binary", "Logical"} ->
         resolver_right(resolve_expr(rs, expr.left, Child(path, 1)), expr, path)
    [] expr.t = "Call" ->
         resolver_call_args(resolve_expr(rs, expr.callee, Child(path, 1)),
                            expr, path)
    [] expr.t = "Grouping" -> resolve_expr(rs, expr.expression, Child(path, 1))
    [] expr.t = "Unary" -> resolve_expr(rs, expr.right, Child(path, 1))
    [] expr.t = "Variable" -> resolver_variable(rs, expr, path)

\* -------------------------------------------------------- interpreter
\* interpreter.rs: struct Interpreter.  `heap` holds every environment made
\* so far, `environment` is the current one, `locals` the side-table, `out`
\* the lines written to stdout, `steps` what is left of MaxSteps, `unheld`
\* the number of assign_at calls that found no binding to overwrite.
Interpreter_new ==
  [heap |-> <<[values |-> [n \in {"clock"} |-> NativeClock], enclosing |-> 0]>>,
   environment |-> GlobalsId,
   locals |-> [x \in {} |-> 0],
   out |-> <<>>,
   steps |-> MaxSteps, unheld |-> 0]

\* Interpreter::is_truthy.
is_truthy(value) ==
  IF value.k = "Bool" THEN value.b ELSE value.k # "Nil"

RECURSIVE repeat(_, _)
\* String::repeat.
repeat(s, n) == IF n <= 0 THEN "" ELSE s \o repeat(s, n - 1)

\* The match of Interpreter::visit_binary_expr on (left, right) and the
\* operator's token type.
binary_result(left, ttype, right) ==
  CASE left.k = "Number" /\ right.k = "Number" ->
         CASE ttype = "Minus" -> Number(left.n - right.n)
           [] ttype = "Slash" ->
                \* f64 division; a quotient that is no integer is kept as the
                \* pair of its operands.
                IF right.n # 0 /\ left.n % right.n = 0
                  THEN Number(left.n \div right.n)
                  ELSE [k |-> "Number", q |-> <<left.n, right.n>>]
           [] ttype = "Star" -> Number(left.n * right.n)
           [] ttype = "Plus" -> Number(left.n + right.n)
           [] ttype = "Greater" -> Bool(left.n > right.n)
           [] ttype = "GreaterEqual" -> Bool(left.n >= right.n)
           [] ttype = "Less" -> Bool(left.n < right.n)
           [] ttype = "LessEqual" -> Bool(left.n <= right.n)
           [] ttype = "BangEqual" -> Bool(left.n # right.n)
           [] ttype = "EqualEqual" -> Bool(left.n = right.n)
           [] OTHER -> IllegalOperation
    [] left.k = "Number" /\ right.k = "Str" ->
         CASE ttype = "Plus" -> Str(ToString(left.n) \o right.s)
           [] ttype = "Star" -> Str(repeat(right.s, left.n))
           [] OTHER -> IllegalOperation
    [] left.k = "Str" /\ right.k = "Number" ->
         CASE ttype = "Plus" -> Str(left.s \o ToString(right.n))
           [] ttype = "Star" -> Str(repeat(left.s, right.n))
           [] OTHER -> IllegalOperation
    [] left.k = "Str" /\ right.k = "Str" ->
         CASE ttype = "Plus" -> Str(left.s \o right.s)
           [] ttype = "BangEqual" -> Bool(left.s # right.s)
           [] ttype = "EqualEqual" -> Bool(left.s = right.s)
           [] OTHER -> IllegalOperation
    [] left.k = "Bool" /\ right.k = "Bool" ->
         CASE ttype = "BangEqual" -> Bool(left.b # right.b)
           [] ttype = "EqualEqual" -> Bool(left.b = right.b)
           [] OTHER -> IllegalOperation
    [] left.k = "Nil" /\ right.k = "Nil" ->
         CASE ttype = "BangEqual" -> Bool(FALSE)
           [] ttype = "EqualEqual" -> Bool(TRUE)
           [] OTHER -> IllegalOperation
    [] left.k = "Nil" /\ right.k # "Nil" ->
         CASE ttype = "Equal" -> Bool(FALSE)
           [] ttype = "BangEqual" -> Bool(TRUE)
           [] OTHER -> IllegalOperation
    [] OTHER -> IllegalOperation

\* The zip loop of LoxFunction::call: define each parameter.
bind_params(environment, params, arguments) ==
  [environment EXCEPT !.values =
     [n \in {params[i] : i \in 1..Len(params)} |->
        arguments[CHOOSE i \in 1..Len(params) :
                    /\ params[i] = n
                    /\ \A j \in 1..Len(params) : params[j] = n => j <= i]]]

\* Interpreter::lookup_variable.
lookup_variable(st, name, expr) ==
  IF expr \in DOMAIN st.locals
    THEN LET g == Environment_get_at(st.heap, st.environment, st.locals[expr], name) IN
         IF g.found THEN Ok(st, g.v) ELSE Err(st, Panic("get_at"))
    ELSE LET g == Environment_get(st.heap, GlobalsId, name) IN
         IF g.found THEN Ok(st, g.v)
         ELSE Err(st, RuntimeError("Undefined variable"))

\* The evaluator is recursive.  As in the resolver, each operator hands the
\* Result of a visit to the operator that models the code after it.
RECURSIVE interpret_loop(_, _, _, _)
RECURSIVE execute(_, _, _)
RECURSIVE evaluate(_, _, _)
RECURSIVE evaluate_args(_, _, _, _, _)
RECURSIVE while_loop(_, _, _)

\* A statement loop that goes on to the next statement after an Err.
interpret_next_after_error(r, stmts, path, i) ==
  interpret_loop(r.st, stmts, path, i)

\* The statement loop, after statement i - 1 gave r: stop at the first Err.
interpret_next(r, stmts, path, i) ==
  IF r.ok THEN interpret_loop(r.st, stmts, path, i) ELSE r

\* The statement loop of Interpreter::interpret and of execute_block's
\* try_for_each.
interpret_loop(st, stmts, path, i) ==
  IF i > Len(stmts) THEN Ok(st, Nil)
  ELSE interpret_next(execute(st, stmts[i], Child(path, i)), stmts, path, i + 1)

\* An execute_block that leaves at an error before it restores the
\* environment.
execute_block_restore_on_ok(result, previous) ==
  IF result.ok THEN [result EXCEPT !.st.environment = previous] ELSE result

\* Interpreter::execute_block, after the statements: restore the previous
\* environment whatever the result.  (A panic unwinds past the restore and
\* ends the process.)
execute_block_restore(result, previous) ==
  IF result.e.kind = "Panic" THEN result
  ELSE [result EXCEPT !.st.environment = previous]

\* Interpreter::execute_block: run the statements in `environment`.
execute_block(st, stmts, path, environment) ==
  execute_block_restore(
    interpret_loop([st EXCEPT !.heap = Append(@, environment),
                              !.environment = Len(st.heap) + 1],
                   stmts, path, 1),
    st.environment)

\* LoxFunction::call of an initializer whose body ended with Ok:
\* `self.closure.borrow().get_at(0, "this")`.
initializer_this(st, g) ==
  IF g.found THEN Ok(st, g.v) ELSE Err(st, Panic("get_at"))

\* LoxFunction::call, the match on execute_block's result: a ReturnValue
\* is the call's value, any other Err is passed on, Ok is nil or, for an
\* initializer, the `this` of the closure.
LoxFunction_call_result(r, function) ==
  IF r.ok
    THEN IF function.is_initializer
           THEN initializer_this(
                  r.st, Environment_get_at(r.st.heap, function.closure, 0, "this"))
         ELSE Ok(r.st, Nil)
  ELSE IF r.e.kind = "ReturnValue" THEN Ok(r.st, r.e.value)
  ELSE r

\* functions_lox.rs LoxFunction::bind: the same function over a new
\* environment that encloses the closure and defines `this`; the
\* environment is appended to the heap.
LoxFunction_bind(heap, function, instance) ==
  [heap |-> Environment_define(
              Append(heap, Environment_new_enclosing(function.closure)),
              Len(heap) + 1, "this", instance),
   function |-> [function EXCEPT !.closure = Len(heap) + 1]]

\* functions_lox.rs LoxFunction::call.  NativeClock::call reads the clock.
LoxFunction_call(st, function, arguments) ==
  IF function.native THEN Ok(st, Number(0))
  ELSE LoxFunction_call_result(
         execute_block(st, function.body, function.decl,
                       bind_params(Environment_new_enclosing(function.closure),
                                   function.params, arguments)),
         function)

\* A visit_while_stmt that a Return ends as a Break does.
while_body_catches_return(b, stmt, path) ==
  IF b.ok THEN while_loop(b.st, stmt, path)
  ELSE IF b.e.kind \in {"Break", "ReturnValue"} THEN Ok(b.st, Nil)
  ELSE b

\* Interpreter::visit_while_stmt, after the body: Break ends the loop with
\* Ok, any other Err is returned.
while_body(b, stmt, path) ==
  IF b.ok THEN while_loop(b.st, stmt, path)
  ELSE IF b.e.kind = "Break" THEN Ok(b.st, Nil)
  ELSE b

\* Interpreter::visit_while_stmt, after the condition.
while_condition(c, stmt, path) ==
  IF ~c.ok THEN c
  ELSE IF ~is_truthy(c.v) THEN Ok(c.st, Nil)
  ELSE IF c.st.steps = 0 THEN Err(c.st, OutOfSteps)
  ELSE while_body(execute([c.st EXCEPT !.steps = @ - 1], stmt.body, Child(path, 2)),
                  stmt, path)

\* Interpreter::visit_while_stmt: one turn of its while.
while_loop(st, stmt, path) ==
  while_condition(evaluate(st, stmt.condition, Child(path, 1)), stmt, path)

\* Interpreter::visit_expression_stmt, after the expression.
expression_done(r) == IF r.ok THEN Ok(r.st, Nil) ELSE r

\* Interpreter::visit_if_stmt, after the condition.
if_branch(c, stmt, path) ==
  IF ~c.ok THEN c
  ELSE IF is_truthy(c.v) THEN execute(c.st, stmt.then_branch, Child(path, 2))
  ELSE IF stmt.else_branch.t # "None"
    THEN execute(c.st, stmt.else_branch, Child(path, 3))
  ELSE Ok(c.st, Nil)

\* Interpreter::visit_print_stmt, after the expression: println.
print_value(r) ==
  IF r.ok THEN Ok([r.st EXCEPT !.out = Append(@, r.v)], Nil) ELSE r

\* Interpreter::visit_return_stmt, after the value.
return_value(r) == IF r.ok THEN Err(r.st, ReturnValue(r.v)) ELSE r

\* Interpreter::visit_var_stmt, after the initializer: define in the
\* current environment.
var_define(r, name) ==
  IF r.ok
    THEN Ok([r.st EXCEPT !.heap = Environment_define(@, r.st.environment, name, r.v)],
            Nil)
    ELSE r

\* Interpreter as StmtVisitor: visit_block_stmt ... visit_break_stmt.
execute(st, stmt, path) ==
  CASE stmt.t = "Block" ->
         execute_block(st, stmt.statements, path,
                       Environment_new_enclosing(st.environment))
    [] stmt.t = "Expression" ->
         expression_done(evaluate(st, stmt.expression, Child(path, 1)))
    [] stmt.t = "Function" ->
         Ok([st EXCEPT !.heap = Environment_define(@, st.environment, stmt.name,
                                  LoxFunction(path, stmt, st.environment))], Nil)
    [] stmt.t = "If" ->
         if_branch(evaluate(st, stmt.condition, Child(path, 1)), stmt, path)
    [] stmt.t = "Print" ->
         print_value(evaluate(st, stmt.expression, Child(path, 1)))
    [] stmt.t = "Return" ->
         IF stmt.value.t = "None" THEN Err(st, ReturnValue(Nil))
         ELSE return_value(evaluate(st, stmt.value, Child(path, 1)))
    [] stmt.t = "Var" ->
         IF stmt.initializer.t = "None" THEN var_define(Ok(st, Nil), stmt.name)
         ELSE var_define(evaluate(st, stmt.initializer, Child(path, 1)), stmt.name)
    [] stmt.t = "While" -> while_loop(st, stmt, path)
    [] stmt.t = "Break" -> Err(st, BreakSignal)

\* The argument loop of Interpreter::visit_call_expr, after argument i - 1.
evaluate_args_next(r, arguments, path, i, acc) ==
  IF r.ok THEN evaluate_args(r.st, arguments, path, i, Append(acc, r.v)) ELSE r

\* The argument loop of Interpreter::visit_call_expr: `acc` is the vector
\* of the arguments evaluated so far, carried in the result's v.
evaluate_args(st, arguments, path, i, acc) ==
  IF i > Len(arguments) THEN Ok(st, acc)
  ELSE evaluate_args_next(evaluate(st, arguments[i], Child(path, i + 1)),
                          arguments, path, i + 1, acc)

\* Interpreter::visit_assign_expr, after the value: assign_at for a
\* resolved expression, globals.assign otherwise.
assign_value(r, expr, path) ==
  IF ~r.ok THEN r
  ELSE IF path \in DOMAIN r.st.locals
    THEN LET a == Environment_assign_at(r.st.heap, r.st.environment,
                                        r.st.locals[path], expr.name, r.v)
         IN IF a.found
              THEN Ok([r.st EXCEPT !.heap = a.heap,
                                   !.unheld = @ + (IF a.held THEN 0 ELSE 1)], r.v)
            ELSE Err(r.st, Panic("assign_at"))
    ELSE LET a == Environment_assign(r.st.heap, GlobalsId, expr.name, r.v) IN
         IF a.found THEN Ok([r.st EXCEPT !.heap = a.heap], r.v)
         ELSE Err(r.st, RuntimeError("Undefined variable"))

\* Interpreter::visit_binary_expr, the end: IllegalOperation becomes the
\* runtime error "Illegal operation".
binary_done(st, result) ==
  IF result = IllegalOperation
    THEN Err(st, RuntimeError("Illegal operation"))
    ELSE Ok(st, result)

\* Interpreter::visit_binary_expr, after the right operand.
binary_apply(left, operator, r) ==
  IF ~r.ok THEN r ELSE binary_done(r.st, binary_result(left, operator, r.v))

\* Interpreter::visit_binary_expr, after the left operand.
binary_right(l, expr, path) ==
  IF ~l.ok THEN l
  ELSE binary_apply(l.v, expr.operator, evaluate(l.st, expr.right, Child(path, 2)))

Digits == <<"0", "1", "2", "3", "4", "5", "6", "7", "8", "9">>
\* The `{}` of format! on a usize: its decimal digits.
RECURSIVE format_usize(_)
format_usize(n) ==
  IF n < 10 THEN Digits[n + 1]
  ELSE format_usize(n \div 10) \o Digits[(n % 10) + 1]

\* format!("Expected {} arguments but got {}", arity, len).
expected_arguments(arity, len) ==
  "Expected " \o format_usize(arity) \o " arguments but got " \o format_usize(len)

\* A visit_call_expr that only asks for enough arguments: the zip of
\* LoxFunction::call drops the ones past the parameters.
call_function_drops_extra(callee, a) ==
  IF ~a.ok THEN a
  ELSE IF callee.k # "Func"
    THEN Err(a.st, RuntimeError("Can only call functions and classes"))
  ELSE IF Len(a.v) < Len(callee.params)
    THEN Err(a.st, RuntimeError(expected_arguments(Len(callee.params), Len(a.v))))
  ELSE IF a.st.steps = 0 THEN Err(a.st, OutOfSteps)
  ELSE LoxFunction_call([a.st EXCEPT !.steps = @ - 1], callee, a.v)

\* Interpreter::visit_call_expr, after the arguments: the callee must be a
\* function of that arity.
call_function(callee, a) ==
  IF ~a.ok THEN a
  ELSE IF callee.k # "Func"
    THEN Err(a.st, RuntimeError("Can only call functions and classes"))
  ELSE IF Len(a.v) # Len(callee.params)
    THEN Err(a.st, RuntimeError(expected_arguments(Len(callee.params), Len(a.v))))
  ELSE IF a.st.steps = 0 THEN Err(a.st, OutOfSteps)
  ELSE LoxFunction_call([a.st EXCEPT !.steps = @ - 1], callee, a.v)

\* Interpreter::visit_call_expr, after the callee.
call_args(c, expr, path) ==
  IF ~c.ok THEN c
  ELSE call_function(c.v, evaluate_args(c.st, expr.arguments, path, 1, <<>>))

\* A visit_logical_expr that always evaluates the right operand.
logical_right_eager(l, expr, path) ==
  IF ~l.ok THEN l ELSE evaluate(l.st, expr.right, Child(path, 2))

\* Interpreter::visit_logical_expr, after the left operand.
logical_right(l, expr, path) ==
  IF ~l.ok THEN l
  ELSE IF expr.operator = "Or" /\ is_truthy(l.v) THEN l
  ELSE IF expr.operator # "Or" /\ ~is_truthy(l.v) THEN l
  ELSE evaluate(l.st, expr.right, Child(path, 2))

\* Interpreter::visit_unary_expr, after the operand.  Minus on a value
\* that is no number prints a message and gives nil.
unary_apply(r, operator) ==
  IF ~r.ok THEN r
  ELSE CASE operator = "Minus" ->
              IF r.v.k = "Number" THEN Ok(r.st, Number(0 - r.v.n))
              ELSE Ok([r.st EXCEPT !.out =
                         Append(@, Str("Negation operation is not allowed"))],
                      Nil)
         [] operator = "Bang" -> Ok(r.st, Bool(~is_truthy(r.v)))
         [] OTHER -> Err(r.st, [kind |-> "ParseError", message |-> "Unreachable",
                                value |-> Nil])

\* Interpreter as ExprVisitor: visit_assign_expr ... visit_variable_expr.
evaluate(st, expr, path) ==
  CASE expr.t = "Assign" ->
         assign_value(evaluate(st, expr.value, Child(path, 1)), expr, path)
    [] expr.t = "Literal" -> Ok(st, expr.value)
    [] expr.t = "Binary" ->
         binary_right(evaluate(st, expr.left, Child(path, 1)), expr, path)
    [] expr.t = "Call" ->
         call_args(evaluate(st, expr.callee, Child(path, 1)), expr, path)
    [] expr.t = "Grouping" -> evaluate(st, expr.expression, Child(path, 1))
    [] expr.t = "Logical" ->
         logical_right(evaluate(st, expr.left, Child(path, 1)), expr, path)
    [] expr.t = "Unary" ->
         unary_apply(evaluate(st, expr.right, Child(path, 1)), expr.operator)
    [] expr.t = "Variable" -> lookup_variable(st, expr.name, path)

\* Interpreter::interpret.
interpret(st, stmts, path) == interpret_loop(st, stmts, path, 1)

\* ------------------------------------------------------------- scanner
\* token.rs Token::new.  `literal` is the Object of a Number,
\* StringLiteral or Identifier token and Nil (None) for every other token.
Token(ttype, lexeme, literal, line, col) ==
  [ttype |-> ttype, lexeme |-> lexeme, literal |-> literal, line |-> line,
   col |-> col]
\* Object::Identifier.
Identifier(val) == [k |-> "Identifier", s |-> val]

\* scanner.rs Scanner::new.  The source is a sequence of characters
\* (strings of length one); `current` and `start` count the characters
\* consumed, as in the source; `errors` are the messages LoxResult::error
\* reported, in order.
Scanner_new(source) ==
  [source |-> source, tokens |-> <<>>, start |-> 0, current |-> 0, line |-> 1,
   col |-> 0, errors |-> <<>>]

\* Result<(), LoxResult> of a scanning function with the scanner it leaves.
SOk(s) == [s |-> s, ok |-> TRUE]
SErr(s, message) ==
  [s |-> [s EXCEPT !.errors = Append(@, message)], ok |-> FALSE]

\* The `?` operator: go on with the Ok value, pass an Err to the caller.
Then(r, F(_)) == IF r.ok THEN F(r) ELSE r

\* The character '\0' that peek and peek_next return at the end.
NoChar == "\\0"

Scanner_is_at_end(s) == s.current >= Len(s.source)
Scanner_peek(s) == IF Scanner_is_at_end(s) THEN NoChar ELSE s.source[s.current + 1]
Scanner_peek_next(s) ==
  IF s.current + 1 >= Len(s.source) THEN NoChar ELSE s.source[s.current + 2]
\* Scanner::advance, the scanner it leaves (the character it returns is
\* the one before `current`).
Scanner_advance(s) == [s EXCEPT !.current = @ + 1, !.col = @ + 1]
\* Scanner::matches, its Bool; when it is true the scanner is advanced, as
\* by Scanner_advance.
Scanner_matches(s, expected) ==
  ~Scanner_is_at_end(s) /\ s.source[s.current + 1] = expected

\* The characters from..to-1 (counted from 0) collected into a String.
RECURSIVE Lexeme(_, _, _)
Lexeme(source, from, to) ==
  IF from >= to THEN "" ELSE source[from + 1] \o Lexeme(source, from + 1, to)

\* Scanner::add_token.
add_token(s, ttype, literal) ==
  [s EXCEPT !.tokens = Append(@, Token(ttype, Lexeme(s.source, s.start, s.current),
                                       literal, s.line, s.col))]

\* Scanner::add_token_twin.
add_token_twin(s, next, twin_type, single_type) ==
  IF Scanner_matches(s, next) THEN add_token(Scanner_advance(s), twin_type, Nil)
  ELSE add_token(s, single_type, Nil)

\* A scan_comment that ends at the first `*/`, whatever was opened inside.
RECURSIVE scan_comment_flat(_)
scan_comment_flat(s) ==
  IF Scanner_is_at_end(s) THEN SErr(s, "Unterminated block comment")
  ELSE IF Scanner_peek(s) = "*" /\ Scanner_matches(Scanner_advance(s), "/")
    THEN SOk(Scanner_advance(Scanner_advance(s)))
  ELSE IF Scanner_peek(s) = "\n"
    THEN scan_comment_flat([Scanner_advance(s) EXCEPT !.line = @ + 1])
  ELSE scan_comment_flat(Scanner_advance(s))

\* Scanner::scan_comment, called after the opening `/*`.  A newline
\* increments `line`; `col` goes on counting.
RECURSIVE scan_comment(_)
scan_comment(s) ==
  IF Scanner_is_at_end(s) THEN SErr(s, "Unterminated block comment")
  ELSE IF Scanner_peek(s) = "*"
    THEN IF Scanner_matches(Scanner_advance(s), "/")
           THEN SOk(Scanner_advance(Scanner_advance(s)))
         ELSE scan_comment(Scanner_advance(s))
  ELSE IF Scanner_peek(s) = "/"
    THEN IF Scanner_matches(Scanner_advance(s), "*")
           THEN Then(scan_comment(Scanner_advance(Scanner_advance(s))),
                     LAMBDA nested : scan_comment(nested.s))
         ELSE scan_comment(Scanner_advance(s))
  ELSE IF Scanner_peek(s) = "\n"
    THEN scan_comment([Scanner_advance(s) EXCEPT !.line = @ + 1])
  ELSE scan_comment(Scanner_advance(s))

\* Scanner::handle_slash, the loop of a `//` comment: up to the newline.
RECURSIVE line_comment(_)
line_comment(s) ==
  IF Scanner_peek(s) # "\n" /\ ~Scanner_is_at_end(s)
    THEN line_comment(Scanner_advance(s))
  ELSE s

\* Scanner::handle_slash.
handle_slash(s) ==
  IF Scanner_matches(s, "/") THEN SOk(line_comment(Scanner_advance(s)))
  ELSE IF Scanner_matches(s, "*") THEN scan_comment(Scanner_advance(s))
  ELSE SOk(add_token(s, "Slash", Nil))

\* Scanner::handle_string, its loop: a newline increments `line`; `col`
\* goes on counting.
RECURSIVE string_loop(_)
string_loop(s) ==
  IF Scanner_peek(s) # "\"" /\ ~Scanner_is_at_end(s)
    THEN string_loop(Scanner_advance(
           IF Scanner_peek(s) = "\n" THEN [s EXCEPT !.line = @ + 1] ELSE s))
  ELSE s

\* Scanner::handle_string, after the loop.
string_end(s) ==
  IF Scanner_is_at_end(s) THEN SErr(s, "Unterminated string")
  ELSE SOk(add_token(Scanner_advance(s), "StringLiteral",
                     Str(Lexeme(s.source, s.start + 1, s.current))))

\* Scanner::handle_string.
handle_string(s) == string_end(string_loop(s))

\* char::is_digit(10), and is_alphabetic / is_alphanumeric of the scanner
\* on the letters of the texts used here.
is_digit(c) == \E i \in 1..Len(Digits) : Digits[i] = c
is_alphabetic(c) ==
  c \in {"a", "b", "c", "d", "e", "f", "g", "h", "i", "j", "k", "l", "m", "n",
         "o", "p", "q", "r", "s", "t", "u", "v", "w", "x", "y", "z", "A", "B",
         "_"}
is_alphanumeric(c) == is_alphabetic(c) \/ is_digit(c)

\* str::parse::<f64> on the digits from..to-1: the whole number they
\* write.
RECURSIVE ParseDigits(_, _, _, _)
ParseDigits(source, from, to, value) ==
  IF from >= to THEN value
  ELSE ParseDigits(source, from + 1, to,
         10 * value + (CHOOSE i \in 1..Len(Digits) : Digits[i] = source[from + 1]) - 1)

\* Scanner::handle_number, a loop `while self.peek().is_digit(10)`.
RECURSIVE digits_loop(_)
digits_loop(s) ==
  IF is_digit(Scanner_peek(s)) THEN digits_loop(Scanner_advance(s)) ELSE s

\* Scanner::handle_number, from the fractional part on.  `whole` is the
\* scanner after the digits before the `.`; a number with a fractional
\* part keeps its digits beside the whole part.
number_end(whole, s) ==
  add_token(s, "Number",
            IF s.current = whole.current
              THEN Number(ParseDigits(s.source, s.start, s.current, 0))
            ELSE [k |-> "Number",
                  n |-> ParseDigits(s.source, s.start, whole.current, 0),
                  fraction |-> Lexeme(s.source, whole.current + 1, s.current)])
number_fraction(whole) ==
  number_end(whole,
             IF Scanner_peek(whole) = "." /\ is_digit(Scanner_peek_next(whole))
               THEN digits_loop(Scanner_advance(whole))
             ELSE whole)

\* Scanner::handle_number.
handle_number(s) == number_fraction(digits_loop(s))

\* scanner.rs KEYWORDS.
KEYWORDS ==
  [and |-> "And", class |-> "Class", else |-> "Else", false |-> "False",
   for |-> "For", fun |-> "Fun", if |-> "If", nil |-> "Nil", or |-> "Or",
   print |-> "Print", return |-> "Return", super |-> "Super", this |-> "This",
   true |-> "True", var |-> "Var", while |-> "While", break |-> "Break"]

\* Scanner::handle_identifier, its loop.
RECURSIVE identifier_loop(_)
identifier_loop(s) ==
  IF is_alphanumeric(Scanner_peek(s)) THEN identifier_loop(Scanner_advance(s))
  ELSE s

\* Scanner::handle_identifier, after the loop.
identifier_end(s, val) ==
  IF val \in DOMAIN KEYWORDS THEN add_token(s, KEYWORDS[val], Nil)
  ELSE add_token(s, "Identifier", Identifier(val))

\* Scanner::handle_identifier.
handle_identifier(s) ==
  identifier_end(identifier_loop(s),
                 Lexeme(s.source, s.start, identifier_loop(s).current))

\* Scanner::handle_longer_lexemes.
handle_longer_lexemes(s, c) ==
  IF is_digit(c) THEN SOk(handle_number(s))
  ELSE IF is_alphabetic(c) THEN SOk(handle_identifier(s))
  ELSE SErr(s, "scanner can't handle " \o c)

\* The tokens of one character, and those that may be followed by `=`.
SingleCharacter ==
  [c \in {"(", ")", "{", "}", ",", ".", "-", "+", ";", "*"} |->
     CASE c = "(" -> "LeftParen" [] c = ")" -> "RightParen"
       [] c = "{" -> "LeftBrace" [] c = "}" -> "RightBrace"
       [] c = "," -> "Comma" [] c = "." -> "Dot" [] c = "-" -> "Minus"
       [] c = "+" -> "Plus" [] c = ";" -> "Semicolon" [] c = "*" -> "Star"]
TwinCharacter ==
  [c \in {"!", "=", "<", ">"} |->
     CASE c = "!" -> <<"BangEqual", "Bang">> [] c = "=" -> <<"EqualEqual", "Equal">>
       [] c = "<" -> <<"LessEqual", "Less">>
       [] c = ">" -> <<"GreaterEqual", "Greater">>]

\* Scanner::scan_token, after `let c = self.advance()`.
scan_token_match(s, c) ==
  IF c \in DOMAIN SingleCharacter THEN SOk(add_token(s, SingleCharacter[c], Nil))
  ELSE IF c \in DOMAIN TwinCharacter
    THEN SOk(add_token_twin(s, "=", TwinCharacter[c][1], TwinCharacter[c][2]))
  ELSE IF c = "/" THEN handle_slash(s)
  ELSE IF c \in {" ", "\r", "\t"} THEN SOk(s)
  ELSE IF c = "\n" THEN SOk([s EXCEPT !.line = @ + 1, !.col = 0])
  ELSE IF c = "\"" THEN handle_string(s)
  ELSE handle_longer_lexemes(s, c)

\* Scanner::scan_token.
scan_token(s) == scan_token_match(Scanner_advance(s), s.source[s.current + 1])

\* Scanner::scan_tokens, its loop.  `failed` is had_error.is_some(); an
\* Err of scan_token is remembered and the loop goes on.
RECURSIVE scan_tokens_loop(_, _)
scan_tokens_next(r, failed) == scan_tokens_loop(r.s, failed \/ ~r.ok)
scan_tokens_loop(s, failed) ==
  IF Scanner_is_at_end(s)
    THEN [s |-> add_token([s EXCEPT !.start = s.current], "Eof", Nil),
          ok |-> ~failed]
  ELSE scan_tokens_next(scan_token([s EXCEPT !.start = s.current]), failed)

\* Scanner::new(source).scan_tokens(): Ok(tokens) or Err.
scan_tokens(source) == scan_tokens_loop(Scanner_new(source), FALSE)

\* -------------------------------------------------------------- parser
\* parser.rs Parser::new.  `current` counts from 1 (the source's index + 1);
\* `errors` are the messages parse_error reported, in order, and `syncs`
\* the calls of synchronize: where each started and where it stopped.
Parser_new(tokens) ==
  [tokens |-> tokens, current |-> 1, had_error |-> FALSE, errors |-> <<>>,
   syncs |-> <<>>]

\* A Result of a parsing function together with the parser it leaves:
\* Ok(node) or Err(ParseError).
POk(p, node) == [p |-> p, ok |-> TRUE, node |-> node]
PErr(p) == [p |-> p, ok |-> FALSE, node |-> NoStmt]

Parser_peek(p) == p.tokens[p.current]
Parser_previous(p) == p.tokens[p.current - 1]
Parser_is_at_end(p) == Parser_peek(p).ttype = "Eof"
Parser_check(p, ttype) == ~Parser_is_at_end(p) /\ Parser_peek(p).ttype = ttype
\* Parser::advance, the parser it leaves (the token it returns is
\* Parser_previous of that parser).
Parser_advance(p) ==
  IF Parser_is_at_end(p) THEN p ELSE [p EXCEPT !.current = @ + 1]
\* Parser::matches, its Bool; the caller advances when it is true.
Parser_matches(p, types) == \E ttype \in types : Parser_check(p, ttype)
\* Parser::parse_error: sets the flag and reports (error_at_token prints).
parse_error(p, message) ==
  [p EXCEPT !.had_error = TRUE, !.errors = Append(@, message)]
consume(p, ttype, message) ==
  IF Parser_check(p, ttype) THEN POk(Parser_advance(p), Parser_peek(p))
  ELSE PErr(parse_error(p, message))

\* The limits of parser.rs finish_call and fun_declaration.
MaxArguments == 255
MaxParameters == 255

\* The binary operators of a precedence level, lowest first: logical_or,
\* logical_and, equality, comparison, term, factor.
BinaryLevels ==
  << {"Or"}, {"And"}, {"BangEqual", "EqualEqual"},
     {"Greater", "GreaterEqual", "Less", "LessEqual"},
     {"Minus", "Plus"}, {"Slash", "Star"} >>

\* The keywords synchronize stops in front of.
SynchronizeAt ==
  {"Class", "Fun", "Var", "For", "If", "While", "Print", "Return"}

\* A synchronize that does not stop after a semicolon.
RECURSIVE synchronize_loop_keywords_only(_)
synchronize_loop_keywords_only(p) ==
  IF Parser_is_at_end(p) THEN p
  ELSE IF Parser_peek(p).ttype \in SynchronizeAt THEN p
  ELSE synchronize_loop_keywords_only(Parser_advance(p))

\* Parser::synchronize, its loop.
RECURSIVE synchronize_loop(_)
synchronize_loop(p) ==
  IF Parser_is_at_end(p) THEN p
  ELSE IF Parser_previous(p).ttype = "Semicolon" THEN p
  ELSE IF Parser_peek(p).ttype \in SynchronizeAt THEN p
  ELSE synchronize_loop(Parser_advance(p))

\* Parser::synchronize.
synchronize(p) == synchronize_loop(Parser_advance(p))

\* A for_statement that leaves the increment out of the loop.
for_desugar_without_increment(initializer, condition, increment, body) ==
  LET loop == While(IF condition = NoExpr THEN Literal(Bool(TRUE))
                    ELSE condition, body)
  IN  IF initializer = NoStmt THEN loop ELSE Block(<< initializer, loop >>)

\* Parser::for_statement, the tree it builds from the parts it parsed.
for_desugar(initializer, condition, increment, body) ==
  LET inner == IF increment = NoExpr THEN body
               ELSE Block(<< body, Expression(increment) >>)
      loop == While(IF condition = NoExpr THEN Literal(Bool(TRUE))
                    ELSE condition, inner)
  IN  IF initializer = NoStmt THEN loop ELSE Block(<< initializer, loop >>)

RECURSIVE declaration(_), var_declaration(_), fun_declaration(_, _),
          parameters_loop(_, _), statement(_), if_statement(_),
          while_statement(_), for_statement(_), block(_), block_loop(_, _),
          expression(_), assignment(_), binary_level(_, _), binary_loop(_, _),
          unary(_), call(_), call_loop(_), finish_call(_, _),
          arguments_step(_), arguments_loop(_, _), primary(_)

\* Parser::primary.
primary(p) ==
  IF Parser_check(p, "False") THEN POk(Parser_advance(p), Literal(Bool(FALSE)))
  ELSE IF Parser_check(p, "True")
    THEN POk(Parser_advance(p), Literal(Bool(TRUE)))
  ELSE IF Parser_check(p, "Nil") THEN POk(Parser_advance(p), Literal(Nil))
  ELSE IF Parser_matches(p, {"Number", "StringLiteral"})
    THEN POk(Parser_advance(p), Literal(Parser_peek(p).literal))
  ELSE IF Parser_check(p, "Identifier")
    THEN POk(Parser_advance(p), Variable(Parser_peek(p).lexeme))
  ELSE IF Parser_check(p, "LeftParen")
    THEN Then(expression(Parser_advance(p)), LAMBDA e :
         Then(consume(e.p, "RightParen", "Expect ')' after expression"),
              LAMBDA c : POk(c.p, Grouping(e.node))))
  ELSE PErr(parse_error(p, "Expression expected"))

\* Parser::finish_call, one iteration of `while self.matches(Comma)` on
\* the arguments parsed so far: past the limit the error is reported and
\* NO expression is parsed after the comma.  It leaves `args` as it is
\* when the loop has ended or an Err has left the function.
arguments_step(args) ==
  IF ~args.ok \/ ~Parser_check(args.p, "Comma") THEN args
  ELSE IF Len(args.node) >= MaxArguments
    THEN POk(parse_error(Parser_advance(args.p),
                         "Can't have more than 255 arguments"), args.node)
  ELSE Then(expression(Parser_advance(args.p)), LAMBDA a :
            POk(a.p, Append(args.node, a.node)))

\* n iterations of the loop, by halves (an iteration after the end of the
\* loop changes nothing); the first half is evaluated before the second
\* starts.
arguments_loop(args, n) ==
  IF n <= 1 THEN arguments_step(args)
  ELSE CHOOSE done \in { arguments_loop(half, n - n \div 2) :
                         half \in { arguments_loop(args, n \div 2) } } : TRUE

\* The tokens left: every iteration of a loop that consumes a token per
\* iteration has ended after that many.
TokensLeft(p) == Len(p.tokens) - p.current + 1

\* Parser::finish_call.
finish_call(p, callee) ==
  Then(IF Parser_check(p, "RightParen") THEN POk(p, <<>>)
       ELSE Then(expression(p), LAMBDA a :
                 arguments_loop(POk(a.p, << a.node >>), TokensLeft(a.p))),
       LAMBDA args :
  Then(consume(args.p, "RightParen", "Expect ')' after arguments"),
       LAMBDA paren : POk(paren.p, Call(callee, args.node))))

\* Parser::call, its loop.
call_loop(e) ==
  IF Parser_check(e.p, "LeftParen")
    THEN Then(finish_call(Parser_advance(e.p), e.node), LAMBDA c : call_loop(c))
  ELSE e

\* Parser::call.
call(p) == Then(primary(p), LAMBDA e : call_loop(e))

\* Parser::unary.
unary(p) ==
  IF Parser_matches(p, {"Bang", "Minus"})
    THEN Then(unary(Parser_advance(p)), LAMBDA right :
              POk(right.p, Unary(Parser_peek(p).ttype, right.node)))
  ELSE call(p)

\* The loop of logical_or, logical_and, equality, comparison, term and
\* factor: `while self.matches(operators) { right = next level; ... }`.
binary_loop(l, level) ==
  IF Parser_matches(l.p, BinaryLevels[level])
    THEN Then(binary_level(Parser_advance(l.p), level + 1), LAMBDA right :
              binary_loop(
                POk(right.p,
                    IF level <= 2
                      THEN Logical(l.node, Parser_peek(l.p).ttype, right.node)
                    ELSE Binary(l.node, Parser_peek(l.p).ttype, right.node)),
                level))
  ELSE l

\* Parser::logical_or (level 1) down to Parser::factor (level 6).
binary_level(p, level) ==
  IF level > Len(BinaryLevels) THEN unary(p)
  ELSE Then(binary_level(p, level + 1), LAMBDA l : binary_loop(l, level))

\* A Parser::assignment that throws the error of an invalid target.
assignment_throws(p) ==
  Then(binary_level(p, 1), LAMBDA e :
    IF Parser_check(e.p, "Equal")
      THEN Then(assignment(Parser_advance(e.p)), LAMBDA value :
             IF e.node.t = "Variable"
               THEN POk(value.p, Assign(e.node.name, value.node))
             ELSE PErr(parse_error(value.p, "Invalid assignment  target.")))
    ELSE e)

\* Parser::assignment: an invalid target is reported and not thrown.
assignment(p) ==
  Then(binary_level(p, 1), LAMBDA e :
    IF Parser_check(e.p, "Equal")
      THEN Then(assignment(Parser_advance(e.p)), LAMBDA value :
             IF e.node.t = "Variable"
               THEN POk(value.p, Assign(e.node.name, value.node))
             ELSE POk(parse_error(value.p, "Invalid assignment  target."),
                      e.node))
    ELSE e)

\* Parser::expression.
expression(p) == assignment(p)

\* Parser::expression_statement.
expression_statement(p) ==
  Then(expression(p), LAMBDA e :
  Then(consume(e.p, "Semicolon", "Expect ';' after value."), LAMBDA c :
       POk(c.p, Expression(e.node))))

\* Parser::print_statement.
print_statement(p) ==
  Then(expression(p), LAMBDA e :
  Then(consume(e.p, "Semicolon", "Expect ';' after value."), LAMBDA c :
       POk(c.p, PrintStmt(e.node))))

\* Parser::return_statement.
return_statement(p) ==
  Then(IF Parser_check(p, "Semicolon") THEN POk(p, NoExpr) ELSE expression(p),
       LAMBDA value :
  Then(consume(value.p, "Semicolon", "Expect ';' after return statement."),
       LAMBDA c : POk(c.p, Return(value.node))))

\* Parser::break_statement.
break_statement(p) ==
  Then(consume(p, "Semicolon", "Expect ';' after break statement."),
       LAMBDA c : POk(c.p, Break))

\* Parser::block, its loop: an Err of declaration leaves the block (`?`).
block_loop(p, stmts) ==
  IF ~Parser_check(p, "RightBrace") /\ ~Parser_is_at_end(p)
    THEN Then(declaration(p), LAMBDA d : block_loop(d.p, Append(stmts, d.node)))
  ELSE POk(p, stmts)

\* Parser::block.
block(p) ==
  Then(block_loop(p, <<>>), LAMBDA b :
  Then(consume(b.p, "RightBrace", "Expect '}' after block."), LAMBDA c :
       POk(c.p, b.node)))

\* Parser::if_statement.
if_statement(p) ==
  Then(consume(p, "LeftParen", "Expect '(' after 'if'."), LAMBDA lp :
  Then(expression(lp.p), LAMBDA condition :
  Then(consume(condition.p, "RightParen", "Expect ')' after 'if'."), LAMBDA rp :
  Then(statement(rp.p), LAMBDA then_branch :
  Then(IF Parser_check(then_branch.p, "Else")
         THEN statement(Parser_advance(then_branch.p))
       ELSE POk(then_branch.p, NoStmt), LAMBDA else_branch :
       POk(else_branch.p,
           If(condition.node, then_branch.node, else_branch.node)))))))

\* Parser::while_statement.
while_statement(p) ==
  Then(consume(p, "LeftParen", "Expect '(' after 'while'."), LAMBDA lp :
  Then(expression(lp.p), LAMBDA condition :
  Then(consume(condition.p, "RightParen", "Expect ')' after while condition."),
       LAMBDA rp :
  Then(statement(rp.p), LAMBDA body :
       POk(body.p, While(condition.node, body.node))))))

\* Parser::for_statement.
for_statement(p) ==
  Then(consume(p, "LeftParen", "Expect '(' after 'for'."), LAMBDA lp :
  Then(IF Parser_check(lp.p, "Semicolon") THEN POk(Parser_advance(lp.p), NoStmt)
       ELSE IF Parser_check(lp.p, "Var")
         THEN var_declaration(Parser_advance(lp.p))
       ELSE expression_statement(lp.p), LAMBDA initializer :
  Then(IF Parser_check(initializer.p, "Semicolon")
         THEN POk(initializer.p, NoExpr)
       ELSE expression(initializer.p), LAMBDA condition :
  Then(consume(condition.p, "Semicolon", "Expect ';' after for loop condition."),
       LAMBDA semicolon :
  Then(IF Parser_check(semicolon.p, "RightParen") THEN POk(semicolon.p, NoExpr)
       ELSE expression(semicolon.p), LAMBDA increment :
  Then(consume(increment.p, "RightParen", "Expect ')' after for loop."),
       LAMBDA rp :
  Then(statement(rp.p), LAMBDA body :
       POk(body.p, for_desugar(initializer.node, condition.node,
                               increment.node, body.node)))))))))

\* Parser::statement.
statement(p) ==
  IF Parser_check(p, "For") THEN for_statement(Parser_advance(p))
  ELSE IF Parser_check(p, "If") THEN if_statement(Parser_advance(p))
  ELSE IF Parser_check(p, "Print") THEN print_statement(Parser_advance(p))
  ELSE IF Parser_check(p, "Return") THEN return_statement(Parser_advance(p))
  ELSE IF Parser_check(p, "While") THEN while_statement(Parser_advance(p))
  ELSE IF Parser_check(p, "Break") THEN break_statement(Parser_advance(p))
  ELSE IF Parser_check(p, "LeftBrace")
    THEN Then(block(Parser_advance(p)), LAMBDA b : POk(b.p, Block(b.node)))
  ELSE expression_statement(p)

\* Parser::var_declaration.
var_declaration(p) ==
  Then(consume(p, "Identifier", "Expect variable name."), LAMBDA name :
  Then(IF Parser_check(name.p, "Equal") THEN expression(Parser_advance(name.p))
       ELSE POk(name.p, NoExpr), LAMBDA initializer :
  Then(consume(initializer.p, "Semicolon",
               "Expect ',' after variable declaration"), LAMBDA c :
       POk(c.p, Var(name.node.lexeme, initializer.node)))))

\* Parser::fun_declaration, one iteration of `while self.matches(Comma)`
\* on the parameters parsed so far: past the limit the error is reported
\* and NO name is consumed after the comma.
parameters_step(params) ==
  IF ~params.ok \/ ~Parser_check(params.p, "Comma") THEN params
  ELSE IF Len(params.node) >= MaxParameters
    THEN POk(parse_error(Parser_advance(params.p),
                         "Can't have more than 255 parameters"), params.node)
  ELSE Then(consume(Parser_advance(params.p), "Identifier",
                    "Expect parameter name"),
            LAMBDA name : POk(name.p, Append(params.node, name.node.lexeme)))

\* n iterations of the loop, by halves.
parameters_loop(params, n) ==
  IF n <= 1 THEN parameters_step(params)
  ELSE CHOOSE done \in { parameters_loop(half, n - n \div 2) :
                         half \in { parameters_loop(params, n \div 2) } } : TRUE

\* Parser::fun_declaration.
fun_declaration(p, kind) ==
  Then(consume(p, "Identifier", "Expect '" \o kind \o "' name."), LAMBDA name :
  Then(consume(name.p, "LeftParen", "Expect '(' after '" \o kind \o "' name."),
       LAMBDA lp :
  Then(IF Parser_check(lp.p, "RightParen") THEN POk(lp.p, <<>>)
       ELSE Then(consume(lp.p, "Identifier", "Expect parameter name"),
                 LAMBDA first :
                 parameters_loop(POk(first.p, << first.node.lexeme >>),
                                 TokensLeft(first.p))),
       LAMBDA params :
  Then(consume(params.p, "RightParen", "Expect ')' after parameters"),
       LAMBDA rp :
  Then(consume(rp.p, "LeftBrace", "Expect '{' before '" \o kind \o "' body"),
       LAMBDA lb :
  Then(block(lb.p), LAMBDA body :
       POk(body.p, Function(name.node.lexeme, params.node, body.node))))))))

\* Parser::declaration, after the declaration: synchronize on Err, and the
\* Err is still returned.
synchronized(from, p) ==
  [p EXCEPT !.syncs = Append(@, [from |-> from, to |-> p.current])]
declaration_result(result) ==
  IF result.ok THEN result
  ELSE PErr(synchronized(result.p.current, synchronize(result.p)))

\* Parser::declaration.  There is no branch for `class`.
declaration(p) ==
  declaration_result(
    IF Parser_check(p, "Fun") THEN fun_declaration(Parser_advance(p), "function")
    ELSE IF Parser_check(p, "Var") THEN var_declaration(Parser_advance(p))
    ELSE statement(p))

\* What Parser::parse did: the parser it leaves, the statements it
\* returns, and for every call of declaration where it started, whether
\* it was Ok, where it left the parser and how many calls of synchronize
\* had been made by then.
RECURSIVE parse_loop(_, _, _)
\* A parse that returns at the first declaration that fails.
parse_next_gives_up(start, result, stmts, calls) ==
  IF result.ok
    THEN parse_loop(result.p, Append(stmts, result.node),
                    Append(calls, [start |-> start, ok |-> TRUE,
                                   end |-> result.p.current,
                                   syncs |-> Len(result.p.syncs)]))
  ELSE [p |-> result.p, stmts |-> stmts,
        calls |-> Append(calls, [start |-> start, ok |-> FALSE,
                                 end |-> result.p.current,
                                 syncs |-> Len(result.p.syncs)])]

parse_next(start, result, stmts, calls) ==
  parse_loop(result.p,
             IF result.ok THEN Append(stmts, result.node) ELSE stmts,
             Append(calls, [start |-> start, ok |-> result.ok,
                            end |-> result.p.current,
                            syncs |-> Len(result.p.syncs)]))

\* Parser::parse, its loop: an Err of declaration is dropped.
parse_loop(p, stmts, calls) ==
  IF Parser_is_at_end(p) THEN [p |-> p, stmts |-> stmts, calls |-> calls]
  ELSE parse_next(p.current, declaration(p), stmts, calls)

\* Parser::new followed by Parser::parse.
parse(tokens) == parse_loop(Parser_new(tokens), <<>>, <<>>)

\* ------------------------------------------------------------ pipeline
\* A source text, as far as Lox::run looks at it: whether the scanner
\* reports an error for it, whether the parser does, and the statements
\* the parser returns.
Source(stmts) == [scan_error |-> FALSE, parse_error |-> FALSE, stmts |-> stmts]
ScanErrorSource == [scan_error |-> TRUE, parse_error |-> FALSE, stmts |-> <<>>]
ParseErrorSource(stmts) ==
  [scan_error |-> FALSE, parse_error |-> TRUE, stmts |-> stmts]

\* scanner.rs Scanner::scan_tokens: Err when a scan_token call failed.
scan_tokens_ok(source) == ~source.scan_error
\* parser.rs Parser::parse returns Ok(stmts) always.
Parser_parse(source) == source.stmts
\* A Parser::success that ignores the errors the parser reported.
Parser_success_always(source) == TRUE
\* parser.rs Parser::success.
Parser_success(source) == ~source.parse_error
\* resolver.rs Resolver::success.
Resolver_success(rs) == ~rs.had_error

\* What the resolver of a run did: the Result of resolve, had_error and
\* the messages it reported.
Resolved(rr) ==
  [ran |-> TRUE, ok |-> rr.ok, had_error |-> rr.rs.had_error,
   reported |-> rr.rs.reported, log |-> rr.rs.log]
\* The run did not reach the resolver.
NotResolved ==
  [ran |-> FALSE, ok |-> TRUE, had_error |-> FALSE, reported |-> <<>>, log |-> <<>>]

\* What a call of Lox::run did: the interpreter it left, its Result, the
\* stage that reported an error, whether interpret was called, and what
\* the resolver did.
RunRecord(st, ok, e, stage, interpreted, resolver) ==
  [st |-> st, ok |-> ok, e |-> e, stage |-> stage, interpreted |-> interpreted,
   log |-> resolver.log, resolver |-> resolver]

\* Lox::run, the end: `self.interpreter.interpret(&statements)?; Ok(())`.
run_interpreted(r, resolver) ==
  RunRecord(r.st, r.ok, r.e,
            IF r.e.kind = "RuntimeError" THEN "runtime" ELSE "none", TRUE, resolver)

\* Lox::run, after the resolver: `resolver.resolve(&statements)?`, then
\* interpret only if resolver.success().
run_resolved(st, rr, statements, line) ==
  IF ~rr.ok
    THEN RunRecord([st EXCEPT !.locals = rr.rs.locals], FALSE,
                   RuntimeError("Can't read local variable its own initializer"),
                   "resolve", FALSE, Resolved(rr))
  ELSE IF ~Resolver_success(rr.rs)
    THEN RunRecord([st EXCEPT !.locals = rr.rs.locals], TRUE, NoError,
                   "resolve", FALSE, Resolved(rr))
  ELSE run_interpreted(
         interpret([st EXCEPT !.locals = rr.rs.locals], statements, <<line>>),
         Resolved(rr))

\* main.rs Lox::run.  `line` is the number of the text, the root of the
\* identities of its nodes.
Lox_run(st, source, line) ==
  IF ~scan_tokens_ok(source)
    THEN RunRecord(st, FALSE, [kind |-> "Error", message |-> "scan", value |-> Nil],
                   "scan", FALSE, NotResolved)
  ELSE IF ~Parser_success(source)
    THEN RunRecord(st, TRUE, NoError, "parse", FALSE, NotResolved)
  ELSE run_resolved(st,
                    Resolver_resolve(Resolver_new(st.locals), Parser_parse(source),
                                     <<line>>, 1),
                    Parser_parse(source), line)

\* ------------------------------------------------------------- inputs
Lit(v) == Literal(v)
CallStmt(name) == Expression(Call(Variable(name), <<>>))

\* Programs whose resolved reads and assignments go through blocks,
\* calls and closures in several orders.
DeepPrograms ==
  { \* { var a = 1; fun f() { a = a + 1; { var b = a; print b; } } f(); f(); }
    << Block(<< Var("a", Lit(Number(1))),
                Function("f", <<>>,
                  << Expression(Assign("a", Binary(Variable("a"), "Plus",
                                                   Lit(Number(1))))),
                     Block(<< Var("b", Variable("a")), PrintStmt(Variable("b")) >>) >>),
                CallStmt("f"), CallStmt("f") >>) >>,
    \* fun f(a) { fun g() { a = a + 1; return a; } return g; }
    \* var h = f(1); { var a = 5; print h(); { print h(); print a; } }
    << Function("f", <<"a">>,
         << Function("g", <<>>,
              << Expression(Assign("a", Binary(Variable("a"), "Plus",
                                               Lit(Number(1))))),
                 Return(Variable("a")) >>),
            Return(Variable("g")) >>),
       Var("h", Call(Variable("f"), << Lit(Number(1)) >>)),
       Block(<< Var("a", Lit(Number(5))),
                PrintStmt(Call(Variable("h"), <<>>)),
                Block(<< PrintStmt(Call(Variable("h"), <<>>)),
                         PrintStmt(Variable("a")) >>) >>) >>,
    \* { var a = 0; while (a < 2) { var b = a; { a = b + 1; } } print a; }
    << Block(<< Var("a", Lit(Number(0))),
                While(Binary(Variable("a"), "Less", Lit(Number(2))),
                      Block(<< Var("b", Variable("a")),
                               Block(<< Expression(Assign("a",
                                          Binary(Variable("b"), "Plus",
                                                 Lit(Number(1))))) >>) >>)),
                PrintStmt(Variable("a")) >>) >> }

\* Statements over one variable, for the scoping programs.
Simple ==
  { Var("a", Lit(Number(1))), Var("a", Lit(Number(2))), Var("a", Variable("a")),
    PrintStmt(Variable("a")), Expression(Assign("a", Lit(Number(3)))) }

\* Programs of nested blocks and of a function body with a nested block.
ScopePrograms ==
  { <<s1, s2>> : s1 \in Simple, s2 \in Simple }
  \cup { <<s1, Block(<<s2, s3>>), PrintStmt(Variable("a"))>> :
           s1 \in Simple, s2 \in Simple, s3 \in Simple }
  \cup { <<Block(<<s1, Block(<<s2, s3>>), s4>>)>> :
           s1 \in Simple, s2 \in Simple, s3 \in Simple, s4 \in Simple }
  \cup { <<Function("f", <<>>, <<s1, Block(<<s2, s3>>)>>), CallStmt("f")>> :
           s1 \in Simple, s2 \in Simple, s3 \in Simple }

\* Operands of the operator programs: literals of each kind and the two
\* functions f and g the programs declare.
Literals ==
  { Lit(Nil), Lit(Bool(TRUE)), Lit(Bool(FALSE)), Lit(Number(0)), Lit(Number(1)),
    Lit(Str("a")), Lit(Str("b")) }
Operands == Literals \cup { Variable("f"), Variable("g") }
BinaryOperators ==
  { "EqualEqual", "BangEqual", "Plus", "Minus", "Star", "Slash",
    "Greater", "GreaterEqual", "Less", "LessEqual" }
UnaryOperators == { "Minus", "Bang" }

\* fun f() {} fun g() {} print <expression>;
OperatorProgram(expr) ==
  << Function("f", <<>>, <<>>), Function("g", <<>>, <<>>), PrintStmt(expr) >>
OperatorPrograms ==
  { OperatorProgram(Binary(x, op, y)) :
      x \in Operands, op \in BinaryOperators, y \in Operands }
  \cup { OperatorProgram(Unary(op, x)) : op \in UnaryOperators, x \in Operands }

\* i = i + 1;   return i;
Increment == Expression(Assign("i", Binary(Variable("i"), "Plus", Lit(Number(1)))))
ReturnI == Return(Variable("i"))

\* fun c() { var i = 0; fun inc() { i = i + 1; return i; } return inc; }
\* var f = c(); print f(); print f(); print f();
CounterProgram ==
  << Function("c", <<>>,
       << Var("i", Lit(Number(0))),
          Function("inc", <<>>, << Increment, ReturnI >>),
          Return(Variable("inc")) >>),
     Var("f", Call(Variable("c"), <<>>)),
     PrintStmt(Call(Variable("f"), <<>>)),
     PrintStmt(Call(Variable("f"), <<>>)),
     PrintStmt(Call(Variable("f"), <<>>)) >>

\* The statements that make a scope with a variable and two closures over
\* it, and hand the closures out through the globals g1 and g2:
\* var i = 0; fun inc() { i = i + 1; } fun get() { return i; }
\* g1 = inc; g2 = get;
TwoClosures ==
  << Var("i", Lit(Number(0))),
     Function("inc", <<>>, << Increment >>),
     Function("get", <<>>, << ReturnI >>),
     Expression(Assign("g1", Variable("inc"))),
     Expression(Assign("g2", Variable("get"))) >>

\* What a closure program does once the scope has exited: "inc" is
\* `g1();`, "get" is `print g2();`.
ClosureUse(u) ==
  IF u = "inc" THEN CallStmt("g1") ELSE PrintStmt(Call(Variable("g2"), <<>>))
ClosureUses ==
  UNION { [1..n -> {"inc", "get"}] : n \in 0..MaxUses }

\* var g1; var g2; <scope>  <uses>   where the scope is a block, or the
\* body of a function that is called once.
SharedProgram(scope, uses) ==
  << Var("g1", NoExpr), Var("g2", NoExpr) >>
  \o (IF scope = "block"
        THEN << Block(TwoClosures) >>
        ELSE << Function("mk", <<>>, TwoClosures), CallStmt("mk") >>)
  \o [k \in 1..Len(uses) |-> ClosureUse(uses[k])]
ClosurePrograms ==
  { SharedProgram(scope, uses) : scope \in {"block", "function"}, uses \in ClosureUses }
  \cup { CounterProgram }

\* fun f() { break; }
BreakFunction == Function("f", <<>>, << Break >>)
\* Programs with break in and out of loops and function bodies.
BreakPrograms ==
  { \* break;
    << Break >>,
    \* fun f() { break; } f();
    << BreakFunction, CallStmt("f") >>,
    \* while (true) { break; } print 1;
    << While(Lit(Bool(TRUE)), Block(<< Break >>)), PrintStmt(Lit(Number(1))) >>,
    \* while (true) { fun f() { break; } f(); print 1; } print 2;
    << While(Lit(Bool(TRUE)),
             Block(<< BreakFunction, CallStmt("f"), PrintStmt(Lit(Number(1))) >>)),
       PrintStmt(Lit(Number(2))) >>,
    \* var g; while (true) { fun f() { break; } g = f; break; } g(); print 1;
    << Var("g", NoExpr),
       While(Lit(Bool(TRUE)),
             Block(<< BreakFunction, Expression(Assign("g", Variable("f"))), Break >>)),
       CallStmt("g"),
       PrintStmt(Lit(Number(1))) >>,
    \* while (true) {}
    << While(Lit(Bool(TRUE)), Block(<<>>)) >> }

\* Programs one stage of Lox::run reports an error for.
ErrorPrograms ==
  { \* return;   (outside a function)
    << PrintStmt(Lit(Number(1))), Return(NoExpr) >>,
    \* { var a = 1; var a = 2; }   (declared twice in one scope)
    << PrintStmt(Lit(Number(1))),
       Block(<< Var("a", Lit(Number(1))), Var("a", Lit(Number(2))) >>) >>,
    \* print 1; print b;   (undefined at run time)
    << PrintStmt(Lit(Number(1))), PrintStmt(Variable("b")) >>,
    \* print 1; "a"();
    << PrintStmt(Lit(Number(1))), Expression(Call(Lit(Str("a")), <<>>)) >> }

\* One statement for each error the resolver knows:
\* return;   break;   { var a = 1; var a = 2; }   { var a = a; }
ResolveErrorStmts ==
  { Return(NoExpr), Break,
    Block(<< Var("a", Lit(Number(1))), Var("a", Lit(Number(2))) >>),
    Block(<< Var("a", Variable("a")) >>) }
\* Programs of two statements the resolver has an error for.
ResolveErrorPrograms ==
  { << e1, e2 >> : e1 \in ResolveErrorStmts, e2 \in ResolveErrorStmts }

\* Statements that run without error, with what they have printed and the
\* value `a` holds after them (NoValue: `a` is not defined):
\*   (nothing)   var a = 1;   var a = 1; print a;   var a = 1; a = 2; print a;
NoValue == [k |-> "None"]
Effects ==
  << [stmts |-> <<>>, out |-> <<>>, a |-> NoValue],
     [stmts |-> << Var("a", Lit(Number(1))) >>, out |-> <<>>, a |-> Number(1)],
     [stmts |-> << Var("a", Lit(Number(1))), PrintStmt(Variable("a")) >>,
      out |-> << Number(1) >>, a |-> Number(1)],
     [stmts |-> << Var("a", Lit(Number(1))), Expression(Assign("a", Lit(Number(2)))),
                   PrintStmt(Variable("a")) >>,
      out |-> << Number(2) >>, a |-> Number(2)] >>
\* Statements that yield a runtime error, with what they print before it
\* and the message:   print b;   "a"();   { print 5; print b; print 6; }
Failures ==
  << [stmt |-> PrintStmt(Variable("b")), out |-> <<>>,
      message |-> "Undefined variable"],
     [stmt |-> Expression(Call(Lit(Str("a")), <<>>)), out |-> <<>>,
      message |-> "Can only call functions and classes"],
     [stmt |-> Block(<< PrintStmt(Lit(Number(5))), PrintStmt(Variable("b")),
                        PrintStmt(Lit(Number(6))) >>),
      out |-> << Number(5) >>, message |-> "Undefined variable"] >>
\* The statements after the failing one:
\*   (nothing)   print 3;   var c = 1; print 3;   var a = 4;
Afterwards ==
  { <<>>, << PrintStmt(Lit(Number(3))) >>,
    << Var("c", Lit(Number(1))), PrintStmt(Lit(Number(3))) >>,
    << Var("a", Lit(Number(4))) >> }
\* <effects> <failure> <afterwards>
FailingProgram(k, f, after) == Effects[k].stmts \o << Failures[f].stmt >> \o after
FailingPrograms ==
  { FailingProgram(k, f, after) :
      k \in DOMAIN Effects, f \in DOMAIN Failures, after \in Afterwards }

\* The environments over the names a and b with the values 1 and 2, and
\* the chains of one to three of them: the first has no enclosing
\* environment, each other one encloses the one before it.
Bindings ==
  UNION { [names -> {Number(1), Number(2)}] : names \in SUBSET {"a", "b"} }
Chains ==
  UNION { { [i \in 1..n |-> [values |-> values[i], enclosing |-> i - 1]] :
              values \in [1..n -> Bindings] } : n \in 1..3 }

\* fun f(x) { print 9; }   fun t(n) { print n; return n; }
OneParameter == Function("f", <<"x">>, << PrintStmt(Lit(Number(9))) >>)
Traced ==
  Function("t", <<"n">>, << PrintStmt(Variable("n")), Return(Variable("n")) >>)
\* t(n), which prints n when it is evaluated.
Trace(n) == Call(Variable("t"), << Lit(Number(n)) >>)
\* The callees of the call programs:   f   t(0)   "a"
Callees == { Variable("f"), Trace(0), Lit(Str("a")) }
\* The arguments t(1), ..., t(n), and the same with the undefined `b`
\* in the second place.
TracedArguments(n) == [i \in 1..n |-> Trace(i)]
UndefinedSecond(n) ==
  [i \in 1..n |-> IF i = 2 THEN Variable("b") ELSE Trace(i)]
ArgumentCounts == 0..3
\* fun f(x) ..  fun t(n) ..  <callee>(<arguments>); print 7;
CallProgram(callee, arguments) ==
  << OneParameter, Traced, Expression(Call(callee, arguments)),
     PrintStmt(Lit(Number(7))) >>
CallPrograms ==
  { CallProgram(callee, TracedArguments(n)) : callee \in Callees, n \in ArgumentCounts }
  \cup { CallProgram(callee, UndefinedSecond(n)) :
           callee \in Callees, n \in ArgumentCounts \ {0, 1} }

\* t(v) for a literal v: prints v when it is evaluated and gives v.
TraceValue(v) == Call(Variable("t"), << Lit(v) >>)
\* The operands of the logical programs: nil, false, true, 0, "a".
LogicalOperands == { Nil, Bool(FALSE), Bool(TRUE), Number(0), Str("a") }
LogicalOperators == { "Or", "And" }
\* fun t(n) { print n; return n; }   print t(x) <op> t(y);
LogicalProgram(x, op, y) ==
  << Traced, PrintStmt(Logical(TraceValue(x), op, TraceValue(y))) >>
\* var a = 1; print x <op> (a = 2); print a;
LogicalAssignProgram(x, op) ==
  << Var("a", Lit(Number(1))),
     PrintStmt(Logical(Lit(x), op, Assign("a", Lit(Number(2))))),
     PrintStmt(Variable("a")) >>
LogicalPrograms ==
  { LogicalProgram(x, op, y) :
      x \in LogicalOperands, op \in LogicalOperators, y \in LogicalOperands }
  \cup { LogicalAssignProgram(x, op) : x \in LogicalOperands, op \in LogicalOperators }

\* Bodies of a method that has no parameter and uses no variable:
\*   (empty)   print 1;   return;   print 1; return; print 2;
\*   if (true) return;   { return; }   while (true) { return; }
MethodBodies ==
  { <<>>, << PrintStmt(Lit(Number(1))) >>, << Return(NoExpr) >>,
    << PrintStmt(Lit(Number(1))), Return(NoExpr), PrintStmt(Lit(Number(2))) >>,
    << If(Lit(Bool(TRUE)), Return(NoExpr), NoStmt) >>,
    << Block(<< Return(NoExpr) >>) >>,
    << While(Lit(Bool(TRUE)), Block(<< Return(NoExpr) >>)) >> }

\* The places of a return in a function body: in the body itself, in a
\* block, in a while loop, and in a block in a loop in a block.  Each
\* statement list is followed by prints that must not run.
Nestings == { "body", "block", "while", "nested" }
Nested(nesting, stmts) ==
  CASE nesting = "body" -> stmts
    [] nesting = "block" -> << Block(stmts), PrintStmt(Lit(Number(3))) >>
    [] nesting = "while" ->
         << While(Lit(Bool(TRUE)), Block(stmts \o << PrintStmt(Lit(Number(3))) >>)),
            PrintStmt(Lit(Number(3))) >>
    [] nesting = "nested" ->
         << Block(<< While(Lit(Bool(TRUE)),
                          Block(<< Block(stmts), PrintStmt(Lit(Number(3))) >>)),
                     PrintStmt(Lit(Number(3))) >>),
            PrintStmt(Lit(Number(3))) >>
\* The values of the return:   return;   return 5;
ReturnValues == { NoExpr, Lit(Number(5)) }
\* fun f() { print 1; <nesting of: return <value>; print 2;> print 4; }
\* print f(); print 7;
ReturnProgram(nesting, value) ==
  << Function("f", <<>>,
       << PrintStmt(Lit(Number(1))) >>
         \o Nested(nesting, << Return(value), PrintStmt(Lit(Number(2))) >>)
         \o << PrintStmt(Lit(Number(4))) >>),
     PrintStmt(Call(Variable("f"), <<>>)),
     PrintStmt(Lit(Number(7))) >>
\* Bodies that complete without a return:
\*   (empty)   print 1;   while (false) { return 5; }
NoReturnBodies ==
  { <<>>, << PrintStmt(Lit(Number(1))) >>,
    << While(Lit(Bool(FALSE)), Block(<< Return(Lit(Number(5))) >>)) >> }
\* fun f() { <body> }  print f(); print 7;
NoReturnProgram(body) ==
  << Function("f", <<>>, body), PrintStmt(Call(Variable("f"), <<>>)),
     PrintStmt(Lit(Number(7))) >>
ReturnPrograms ==
  { ReturnProgram(nesting, value) : nesting \in Nestings, value \in ReturnValues }
  \cup { NoReturnProgram(body) : body \in NoReturnBodies }

\* The ways a nested block is left: at its end, by a break, by a return.
Leavings == { "end", "break", "return" }
\* { var a = 1; <inner> print a; }   where <inner> declares another `a`
\* two blocks down and leaves them:
\*   { { var a = 2; } }
\*   while (true) { { var a = 2; break; } }
\*   fun f() { { var a = 2; return; } } f();
RestoreProgram(leaving) ==
  << Block(<< Var("a", Lit(Number(1))) >>
           \o (CASE leaving = "end" ->
                     << Block(<< Block(<< Var("a", Lit(Number(2))) >>) >>) >>
                  [] leaving = "break" ->
                     << While(Lit(Bool(TRUE)),
                              Block(<< Block(<< Var("a", Lit(Number(2))), Break >>) >>)) >>
                  [] leaving = "return" ->
                     << Function("f", <<>>,
                          << Block(<< Var("a", Lit(Number(2))), Return(NoExpr) >>) >>),
                        CallStmt("f") >>)
           \o << PrintStmt(Variable("a")) >>) >>
RestorePrograms == { RestoreProgram(leaving) : leaving \in Leavings }
\* { var c = 1; { print b; } }   (a runtime error two blocks down)
FailsInBlocks ==
  << Block(<< Var("c", Lit(Number(1))), Block(<< PrintStmt(Variable("b")) >>) >>) >>

\* Functions declared in the body of a loop, with a break in their body:
\*   while (true) { fun f() { break; } break; }
\*   { var i = 0; while (i < 1) { { fun f() { break; } } i = i + 1; } }
\*     (the tree of `for (var i = 0; i < 1; i = i + 1) { fun f() { break; } }`)
BreakInLoopFunction ==
  { << While(Lit(Bool(TRUE)), Block(<< BreakFunction, Break >>)) >>,
    << Block(<< Var("i", Lit(Number(0))),
                While(Binary(Variable("i"), "Less", Lit(Number(1))),
                      Block(<< Block(<< BreakFunction >>),
                               Expression(Assign("i", Binary(Variable("i"), "Plus",
                                                             Lit(Number(1))))) >>)) >>) >> }
\* Breaks that have a loop around them in their own function, or follow a
\* function declaration in the body of the loop:
\*   while (true) { fun f() { while (true) { break; } } break; }
\*   while (true) { fun f() {} break; }
BreakInOwnLoop ==
  { << While(Lit(Bool(TRUE)),
             Block(<< Function("f", <<>>,
                        << While(Lit(Bool(TRUE)), Block(<< Break >>)) >>),
                      Break >>)) >>,
    << While(Lit(Bool(TRUE)), Block(<< Function("f", <<>>, <<>>), Break >>)) >> }
LoopFunctionPrograms == BreakInLoopFunction \cup BreakInOwnLoop

\* The texts a file may hold.
\* The pieces of the texts given to the scanner: the ends of a block
\* comment, a slash, a letter, a newline and a quote.
Pieces ==
  { <<"/", "*">>, <<"*", "/">>, <<"/">>, <<"a">>, <<"\n">>, <<"\"">> }
\* The texts of at most n pieces.
RECURSIVE TextsOf(_)
TextsOf(n) ==
  IF n = 0 THEN { <<>> }
  ELSE TextsOf(n - 1) \cup { text \o piece : text \in TextsOf(n - 1), piece \in Pieces }
ScanSources == TextsOf(MaxPieces)

\* Tokens as the scanner makes them, the place left out (line 1, col 0).
T(ttype) == Token(ttype, "", Nil, 1, 0)
Id(name) == Token("Identifier", name, Identifier(name), 1, 0)
Num(n) == Token("Number", "", Number(n), 1, 0)

\* n times `token`, separated by commas.
Separated(n, token) ==
  [i \in 1..(2 * n - 1) |-> IF i % 2 = 1 THEN token ELSE T("Comma")]

\* The lengths of the argument and parameter lists: around the limit,
\* and short ones.
ListLengths ==
  {0, 1, 2, MaxArguments - 1, MaxArguments, MaxArguments + 1, MaxArguments + 2}

\* f(1, ..., 1);   with n arguments
CallTokens(n) ==
  << Id("f"), T("LeftParen") >> \o Separated(n, Num(1))
    \o << T("RightParen"), T("Semicolon"), T("Eof") >>
\* fun f(a, ..., a) {}   with n parameters
FunTokens(n) ==
  << T("Fun"), Id("f"), T("LeftParen") >> \o Separated(n, Id("a"))
    \o << T("RightParen"), T("LeftBrace"), T("RightBrace"), T("Eof") >>
LimitPrograms ==
  { CallTokens(n) : n \in ListLengths } \cup { FunTokens(n) : n \in ListLengths }

\* class A {}    class A < B {}    class A { m() {} }    class A {} print 1;
ClassPrograms ==
  { << T("Class"), Id("A"), T("LeftBrace"), T("RightBrace"), T("Eof") >>,
    << T("Class"), Id("A"), T("Less"), Id("B"), T("LeftBrace"), T("RightBrace"),
       T("Eof") >>,
    << T("Class"), Id("A"), T("LeftBrace"), Id("m"), T("LeftParen"),
       T("RightParen"), T("LeftBrace"), T("RightBrace"), T("RightBrace"),
       T("Eof") >>,
    << T("Class"), Id("A"), T("LeftBrace"), T("RightBrace"), T("Print"), Num(1),
       T("Semicolon"), T("Eof") >> }

\* Well-formed declarations:   print 1;   var a;   fun f() {}
WellFormed ==
  { << T("Print"), Num(1), T("Semicolon") >>,
    << T("Var"), Id("a"), T("Semicolon") >>,
    << T("Fun"), Id("f"), T("LeftParen"), T("RightParen"), T("LeftBrace"),
       T("RightBrace") >> }
\* Declarations with a parse error that end with their semicolon:
\*   print ;   var 1;   print 1 + ;   (1;
ErroneousToSemicolon ==
  { << T("Print"), T("Semicolon") >>,
    << T("Var"), Num(1), T("Semicolon") >>,
    << T("Print"), Num(1), T("Plus"), T("Semicolon") >>,
    << T("LeftParen"), Num(1), T("Semicolon") >> }
\* Declarations with a parse error found at the token after them:
\*   print 1   { print 1 }
ErroneousOpen ==
  { << T("Print"), Num(1) >>,
    << T("LeftBrace"), T("Print"), Num(1), T("RightBrace") >> }
Declarations == WellFormed \cup ErroneousToSemicolon \cup ErroneousOpen
\* Texts of one, two and three declarations.
SyncPrograms ==
  { d1 \o << T("Eof") >> : d1 \in Declarations }
  \cup { d1 \o d2 \o << T("Eof") >> : d1 \in Declarations, d2 \in Declarations }
  \cup { d1 \o d2 \o d3 \o << T("Eof") >> :
           d1 \in Declarations, d2 \in Declarations, d3 \in Declarations }

\* The parts of the for loops, as tokens.  Initializers:
\*   (none)   var i = 0;   i = 0;
ForInitializers ==
  { <<>>, << T("Var"), Id("i"), T("Equal"), Num(0), T("Semicolon") >>,
    << Id("i"), T("Equal"), Num(0), T("Semicolon") >> }
\* Conditions:   (none)   i < 2
ForConditions == { <<>>, << Id("i"), T("Less"), Num(2) >> }
\* Increments:   (none)   i = i + 1
ForIncrements == { <<>>, << Id("i"), T("Equal"), Id("i"), T("Plus"), Num(1) >> }
\* Bodies:   print i;   { print i; if (i >= 1) break; }   break;
\*           { if (1 < i) break; print i; }
PrintI == << T("Print"), Id("i"), T("Semicolon") >>
PrintThenBreak ==
  << T("LeftBrace") >> \o PrintI
    \o << T("If"), T("LeftParen"), Id("i"), T("GreaterEqual"), Num(1),
          T("RightParen"), T("Break"), T("Semicolon"), T("RightBrace") >>
BreakOnly == << T("Break"), T("Semicolon") >>
BreakThenPrint ==
  << T("LeftBrace"), T("If"), T("LeftParen"), Num(1), T("Less"), Id("i"),
     T("RightParen"), T("Break"), T("Semicolon") >> \o PrintI \o << T("RightBrace") >>
ForBodies == { PrintI, PrintThenBreak, BreakOnly, BreakThenPrint }
ForParts ==
  [initializer : ForInitializers, condition : ForConditions,
   increment : ForIncrements, body : ForBodies]

\* var i = 0;   before every loop, so that `i` is defined when the loop
\* has no initializer of its own.
DefineI == << T("Var"), Id("i"), T("Equal"), Num(0), T("Semicolon") >>
\* var i = 0; for (<initializer> <condition>; <increment>) <body>
ForTokens(x) ==
  DefineI \o << T("For"), T("LeftParen") >>
    \o (IF x.initializer = <<>> THEN << T("Semicolon") >> ELSE x.initializer)
    \o x.condition \o << T("Semicolon") >> \o x.increment \o << T("RightParen") >>
    \o x.body \o << T("Eof") >>
\* The loop written by hand:   while (<condition or true>) <inner>   where
\* <inner> is `{ <body> <increment>; }`, or <body> when there is no
\* increment; inside `{ <initializer> ... }` when there is an initializer.
WhileTokens(x) ==
  << T("While"), T("LeftParen") >>
    \o (IF x.condition = <<>> THEN << T("True") >> ELSE x.condition)
    \o << T("RightParen") >>
    \o (IF x.increment = <<>> THEN x.body
        ELSE << T("LeftBrace") >> \o x.body \o x.increment
               \o << T("Semicolon"), T("RightBrace") >>)
DesugaredTokens(x) ==
  DefineI
    \o (IF x.initializer = <<>> THEN WhileTokens(x)
        ELSE << T("LeftBrace") >> \o x.initializer \o WhileTokens(x)
               \o << T("RightBrace") >>)
    \o << T("Eof") >>
ForPrograms ==
  { ForTokens(x) : x \in ForParts } \cup { DesugaredTokens(x) : x \in ForParts }

\* print n;
PrintTokens(n) == << T("Print"), Num(n), T("Semicolon") >>
\* Texts with one erroneous declaration inside braces, the well-formed
\* statements the text has after the first synchronization point, and
\* the errors of a parser that synchronizes once (the text is then parsed
\* on from the synchronization point, outside the braces):
\*   { print ; print 1; } print 2;      { print 1 } print 2; print 3;
\*   { { print ; } } print 2;           fun f() { print 1 } print 2; print 3;
NestedErrors ==
  << [tokens |-> << T("LeftBrace"), T("Print"), T("Semicolon") >> \o PrintTokens(1)
                   \o << T("RightBrace") >> \o PrintTokens(2) \o << T("Eof") >>,
      after |-> << PrintStmt(Literal(Number(1))), PrintStmt(Literal(Number(2))) >>],
     [tokens |-> << T("LeftBrace"), T("Print"), Num(1), T("RightBrace") >>
                   \o PrintTokens(2) \o PrintTokens(3) \o << T("Eof") >>,
      after |-> << PrintStmt(Literal(Number(2))), PrintStmt(Literal(Number(3))) >>],
     [tokens |-> << T("LeftBrace"), T("LeftBrace"), T("Print"), T("Semicolon"),
                    T("RightBrace"), T("RightBrace") >> \o PrintTokens(2)
                   \o << T("Eof") >>,
      after |-> << PrintStmt(Literal(Number(2))) >>],
     [tokens |-> << T("Fun"), Id("f"), T("LeftParen"), T("RightParen"), T("LeftBrace"),
                    T("Print"), Num(1), T("RightBrace") >>
                   \o PrintTokens(2) \o PrintTokens(3) \o << T("Eof") >>,
      after |-> << PrintStmt(Literal(Number(2))), PrintStmt(Literal(Number(3))) >>] >>
NestedErrorPrograms == { NestedErrors[k].tokens : k \in DOMAIN NestedErrors }

\* Token vectors of any tokens of these kinds, in any order, and Eof.
AnyToken ==
  { T("Print"), Num(1), Id("a"), T("Semicolon"), T("LeftBrace"), T("RightBrace"),
    T("LeftParen"), T("RightParen"), T("Equal"), T("Fun") }
AnyTokens ==
  UNION { { tokens \o << T("Eof") >> : tokens \in [1..n -> AnyToken] } :
            n \in 0..MaxTokens }

\* The parts of the assignment texts, each with the tree the parser makes
\* of it on its own.  Left-hand sides:   a + b   1   (a)   a
AssignmentLefts ==
  { [tokens |-> << Id("a"), T("Plus"), Id("b") >>,
     node |-> Binary(Variable("a"), "Plus", Variable("b"))],
    [tokens |-> << Num(1) >>, node |-> Literal(Number(1))],
    [tokens |-> << T("LeftParen"), Id("a"), T("RightParen") >>,
     node |-> Grouping(Variable("a"))],
    [tokens |-> << Id("a") >>, node |-> Variable("a")] }
\* Right-hand sides:   c   2   b = 2
AssignmentValues ==
  { [tokens |-> << Id("c") >>, node |-> Variable("c")],
    [tokens |-> << Num(2) >>, node |-> Literal(Number(2))],
    [tokens |-> << Id("b"), T("Equal"), Num(2) >>,
     node |-> Assign("b", Literal(Number(2)))] }
\* The statement the assignment is the expression of, and what follows it:
\*   <left> = <value>;    print <left> = <value>;    ... print 1;
AssignmentParts ==
  [left : AssignmentLefts, value : AssignmentValues, print : BOOLEAN,
   rest : { <<>>, << PrintStmt(Literal(Number(1))) >> }]
AssignmentTokens(x) ==
  (IF x.print THEN << T("Print") >> ELSE <<>>)
    \o x.left.tokens \o << T("Equal") >> \o x.value.tokens \o << T("Semicolon") >>
    \o (IF x.rest = <<>> THEN <<>> ELSE PrintTokens(1)) \o << T("Eof") >>
AssignmentPrograms == { AssignmentTokens(x) : x \in AssignmentParts }

TokenPrograms ==
  LimitPrograms \cup ClassPrograms \cup SyncPrograms \cup ForPrograms
    \cup NestedErrorPrograms \cup AnyTokens \cup AssignmentPrograms

\* The statements the parser makes of the for loops, for Lox::run.
ParsedForProgram(x) == parse(ForTokens(x)).stmts
ParsedForPrograms == { ParsedForProgram(x) : x \in ForParts }

Programs ==
  { Source(p) : p \in ScopePrograms \cup OperatorPrograms \cup ClosurePrograms
                      \cup BreakPrograms \cup ErrorPrograms
                      \cup ResolveErrorPrograms \cup FailingPrograms
                      \cup CallPrograms \cup LogicalPrograms
                      \cup ParsedForPrograms \cup ReturnPrograms
                      \cup DeepPrograms \cup RestorePrograms
                      \cup LoopFunctionPrograms }
  \cup { ScanErrorSource, ParseErrorSource(<<PrintStmt(Lit(Number(1)))>>) }

\* fun f() { return a; }
ReadA == Function("f", <<>>, << Return(Variable("a")) >>)
\* a = 3; print b;   (the assignment, then a runtime error)
AssignThenFail == << Expression(Assign("a", Lit(Number(3)))), PrintStmt(Variable("b")) >>
\* Lines that define and call a function, and lines the resolver or the
\* interpreter reports an error for:
\* fun f() { return a; }   print f();   return;   { var a = a; }
\* a = 3; print b;   { var c = 1; { print b; } }
ReplLines ==
  { << ReadA >>, << PrintStmt(Call(Variable("f"), <<>>)) >>, << Return(NoExpr) >>,
    << Block(<< Var("a", Variable("a")) >>) >>, AssignThenFail, FailsInBlocks }

\* The texts of a REPL line.
Lines ==
  { Source(<<s>>) : s \in Simple }
  \cup { Source(line) : line \in ReplLines }
  \cup { ScanErrorSource, ParseErrorSource(<<PrintStmt(Lit(Number(1)))>>) }

\* ------------------------------------------------------ state machine
VARIABLES
  heap,         \* every environment made so far; heap[GlobalsId] the globals
  environment,  \* Interpreter.environment
  locals,       \* Interpreter.locals
  out,          \* the lines printed to stdout
  mode,         \* "file" (one argument) or "prompt" (none): main.rs main
  status,       \* "running", "exited", or "cut" (a run used up MaxSteps)
  exit_code,    \* the process's exit code once exited
  nlines,       \* the texts run so far
  last,         \* what the last call of Lox::run did, and on what
  unit          \* a part of the program run on its own, and what it did

vars ==
  <<heap, environment, locals, out, mode, status, exit_code, nlines, last, unit>>

\* No part has been run on its own.
NoUnit == [op |-> "none"]

NoRun ==
  [source |-> Source(<<>>), pre |-> {}, ok |-> TRUE, e |-> NoError,
   stage |-> "none", interpreted |-> FALSE, log |-> <<>>,
   resolver |-> NotResolved, unheld |-> 0]

\* main.rs Lox::new and main's choice of the mode.
Init ==
  /\ heap = Interpreter_new.heap
  /\ environment = Interpreter_new.environment
  /\ locals = Interpreter_new.locals
  /\ out = Interpreter_new.out
  /\ mode \in {"file", "prompt", "scan", "parse", "assign", "method"}
  /\ status = "running"
  /\ exit_code = 0
  /\ nlines = 0
  /\ last = NoRun
  /\ unit = NoUnit

\* The interpreter as Lox::run receives it, with the model's step budget.
TheInterpreter ==
  [heap |-> heap, environment |-> environment, locals |-> locals, out |-> out,
   steps |-> MaxSteps, unheld |-> 0]

\* The effect of one Lox::run on the interpreter and the record of it.
Ran(source, r) ==
  /\ heap' = r.st.heap
  /\ environment' = r.st.environment
  /\ locals' = r.st.locals
  /\ out' = r.st.out
  /\ nlines' = nlines + 1
  /\ last' = [source |-> source, pre |-> DOMAIN heap[GlobalsId].values,
              ok |-> r.ok, e |-> r.e, stage |-> r.stage,
              interpreted |-> r.interpreted, log |-> r.log,
              resolver |-> r.resolver, unheld |-> r.st.unheld]
  /\ UNCHANGED unit

\* Lox::run_file, after run: exit 65 on Err, return normally on Ok; a
\* panic ends the process with Rust's code 101.
run_file_exit(source, r) ==
  /\ Ran(source, r)
  /\ status' = IF r.e.kind = "OutOfSteps" THEN "cut" ELSE "exited"
  /\ exit_code' = IF r.e.kind = "Panic" THEN 101
                  ELSE IF r.ok THEN 0 ELSE 65

\* main.rs Lox::run_file.
run_file(source) ==
  /\ mode = "file" /\ status = "running" /\ nlines = 0
  /\ run_file_exit(source, Lox_run(TheInterpreter, source, 1))
  /\ UNCHANGED mode

\* Lox::run_prompt, after run: the Result is dropped and the loop goes on.
run_prompt_next(source, r) ==
  /\ Ran(source, r)
  /\ status' = IF r.e.kind = "OutOfSteps" THEN "cut"
               ELSE IF r.e.kind = "Panic" THEN "exited" ELSE "running"
  /\ exit_code' = IF r.e.kind = "Panic" THEN 101 ELSE 0

\* A run_prompt that makes a new Interpreter for every line.
run_prompt_line_fresh_interpreter(source) ==
  /\ mode = "prompt" /\ status = "running" /\ nlines < MaxLines
  /\ run_prompt_next(source, Lox_run(Interpreter_new, source, nlines + 1))
  /\ UNCHANGED mode

\* One iteration of the loop of main.rs Lox::run_prompt.
run_prompt_line(source) ==
  /\ mode = "prompt" /\ status = "running" /\ nlines < MaxLines
  /\ run_prompt_next(source, Lox_run(TheInterpreter, source, nlines + 1))
  /\ UNCHANGED mode

\* The end of stdin: run_prompt returns Ok and main exits normally.
run_prompt_eof ==
  /\ mode = "prompt" /\ status = "running"
  /\ status' = "exited"
  /\ exit_code' = 0
  /\ UNCHANGED <<heap, environment, locals, out, mode, nlines, last, unit>>

\* Parser::new(tokens).parse() on its own, as Lox::run calls it on the
\* tokens of the scanner.
parsed(result) ==
  /\ unit' = [op |-> "parse", parser |-> result]
  /\ status' = "exited"
  /\ UNCHANGED <<heap, environment, locals, out, mode, exit_code, nlines, last>>
parse_tokens(tokens) ==
  /\ mode = "parse" /\ status = "running"
  /\ parsed(parse(tokens))

\* Scanner::new(source).scan_tokens() on its own, as Lox::run calls it on a
\* text.
scanned(result) ==
  /\ unit' = [op |-> "scan", scanner |-> result]
  /\ status' = "exited"
  /\ UNCHANGED <<heap, environment, locals, out, mode, exit_code, nlines, last>>
scan_source(source) ==
  /\ mode = "scan" /\ status = "running"
  /\ scanned(scan_tokens(source))

\* Environment::assign on its own, called on the innermost environment of
\* a chain.
assigned(chain, name, value, result) ==
  /\ unit' = [op |-> "assign", heap |-> chain, id |-> Len(chain), name |-> name,
              value |-> value, result |-> result]
  /\ status' = "exited"
  /\ UNCHANGED <<heap, environment, locals, out, mode, exit_code, nlines, last>>
environment_assign(chain, name, value) ==
  /\ mode = "assign" /\ status = "running"
  /\ assigned(chain, name, value, Environment_assign(chain, Len(chain), name, value))

\* A method bound to an instance and called on its own, as
\* LoxClass::instantiate and a call of a property do it.
method_called(bound, instance, result) ==
  /\ unit' = [op |-> "method", function |-> bound.function, instance |-> instance,
              ok |-> result.ok, v |-> result.v, e |-> result.e,
              out |-> result.st.out, environment |-> result.st.environment]
  /\ status' = "exited"
  /\ UNCHANGED <<heap, environment, locals, out, mode, exit_code, nlines, last>>
method_bound(bound, instance) ==
  method_called(bound, instance,
                LoxFunction_call([Interpreter_new EXCEPT !.heap = bound.heap],
                                 bound.function, <<>>))
call_method(name, body, instance) ==
  /\ mode = "method" /\ status = "running"
  /\ method_bound(
       LoxFunction_bind(Interpreter_new.heap,
                        LoxFunction_method(<<1, 1>>, Function(name, <<>>, body),
                                           GlobalsId, name = "init"),
                        instance),
       instance)

RunFile == \E source \in Programs : run_file(source)
RunPromptLine == \E source \in Lines : run_prompt_line(source)
ScanSource == \E source \in ScanSources : scan_source(source)
ParseTokens == \E tokens \in TokenPrograms : parse_tokens(tokens)
CallMethod ==
  \E name \in {"init", "m"}, body \in MethodBodies :
    call_method(name, body, Instance("A"))
EnvironmentAssign ==
  \E chain \in Chains, name \in {"a", "b"} : environment_assign(chain, name, Number(3))

Next ==
  \/ RunFile \/ RunPromptLine \/ run_prompt_eof \/ ScanSource \/ ParseTokens
  \/ EnvironmentAssign \/ CallMethod

Spec == Init /\ [][Next]_vars

\* ---------------------------------------------------------- properties
\* The scopes of the stack (1 = outermost) that hold `name`.
Holding(scopes, name) == { k \in 1..Len(scopes) : name \in DOMAIN scopes[k] }

\* The distance from the top of the stack to the innermost scope holding
\* `name` (0 = innermost).
InnermostDistance(scopes, name) ==
  Len(scopes) - (CHOOSE k \in Holding(scopes, name) :
                   \A j \in Holding(scopes, name) : j <= k)

\* The resolve_local calls of the last run whose name some scope held.
LocalCalls ==
  { k \in 1..Len(last.log) : Holding(last.log[k].scopes, last.log[k].name) # {} }

\* C1: after a run, the side-table entry of every Variable or Assign
\* expression whose name was in one or more scopes of the stack is the
\* distance to the innermost scope holding the name.
C1_InnermostScopeRecorded ==
  \A k \in LocalCalls :
    /\ last.log[k].expr \in DOMAIN locals
    /\ locals[last.log[k].expr] =
         InnermostDistance(last.log[k].scopes, last.log[k].name)

\* The side-table of plain lexical scoping for a resolver history: the
\* innermost distance for every expression some scope held the name of.
LexicalLocals(log) ==
  [x \in { log[k].expr : k \in { j \in 1..Len(log) :
                                   Holding(log[j].scopes, log[j].name) # {} } } |->
     LET k == CHOOSE j \in 1..Len(log) : log[j].expr = x
     IN InnermostDistance(log[k].scopes, log[k].name)]

\* The file's program evaluated against lexical scoping: the evaluator run
\* from a fresh interpreter with the lexical side-table.
LexicalEval(source, log) ==
  interpret([Interpreter_new EXCEPT !.locals = LexicalLocals(log)],
            source.stmts, <<1>>)

\* The outcome of LexicalEval the claim compares: what was printed, and
\* the kind of the result.
SameAsLexical(r) == out = r.st.out /\ last.ok = r.ok /\ last.e.kind = r.e.kind

\* C2: for a file the resolver accepted, the run prints the same values
\* and ends with the same result as the evaluation against lexical
\* scoping.
C2_SameAsLexicalScoping ==
  (mode = "file" /\ last.interpreted) =>
    SameAsLexical(LexicalEval(last.source, last.log))

RECURSIVE SharedPrints(_, _)
\* What the first k uses of a closure program print under sharing: each
\* "get" prints the number of "inc" before it.
SharedPrints(uses, k) ==
  IF k = 0 THEN <<>>
  ELSE SharedPrints(uses, k - 1)
       \o (IF uses[k] = "get"
             THEN << Number(Cardinality({ j \in 1..k : uses[j] = "inc" })) >>
             ELSE <<>>)

\* The file that was run is the program `stmts`.
RanFile(stmts) == mode = "file" /\ nlines = 1 /\ last.source = Source(stmts)

\* C3: closures made in one scope share its environment after the scope
\* has exited: a read through get sees every write made through inc, and
\* the counter closure returns 1, 2, 3 on three successive calls.
C3_ClosuresShareEnvironment ==
  /\ \A scope \in {"block", "function"}, uses \in ClosureUses :
       RanFile(SharedProgram(scope, uses)) =>
         last.ok /\ out = SharedPrints(uses, Len(uses))
  /\ RanFile(CounterProgram) =>
       last.ok /\ out = << Number(1), Number(2), Number(3) >>

\* C3 witness: the scope of a function body has exited, inc was called
\* twice and get then printed 2.
C3_Witness ==
  /\ RanFile(SharedProgram("function", [k \in 1..3 |-> IF k = 3 THEN "get" ELSE "inc"]))
  /\ out = << Number(2) >>

\* The resolver reports an error for the text: resolve returns Err or
\* resolve_error was called.
ResolverReports(source, line) ==
  (~source.scan_error /\ ~source.parse_error)
  /\ LET rr == Resolver_resolve(Resolver_new([x \in {} |-> 0]), source.stmts,
                                <<line>>, 1)
     IN ~rr.ok \/ rr.rs.had_error

\* A stage before the evaluator reported an error for the text.
StaticError(source, line) ==
  source.scan_error \/ source.parse_error \/ ResolverReports(source, line)

\* C4: in file mode the process exits with code 65 whenever a stage
\* reported an error for the file (scan, parse, resolve or runtime).
C4_AnyErrorExits65 ==
  (mode = "file" /\ status = "exited"
   /\ (StaticError(last.source, 1)
       \/ (last.interpreted /\ last.e.kind = "RuntimeError")))
  => exit_code = 65

\* C5: Lox::run calls interpret exactly when scanner, parser and resolver
\* all reported success; when one reported an error the run leaves the
\* environments and the output as they were.
C5_InterpretIffNoStaticError ==
  [][ nlines' = nlines + 1 =>
        /\ last'.interpreted = ~StaticError(last'.source, nlines')
        /\ StaticError(last'.source, nlines') =>
             (heap' = heap /\ out' = out /\ environment' = environment) ]_vars

\* C5 witness: a file with a parse error was run and interpret was not
\* called.
C5_Witness ==
  mode = "file" /\ nlines = 1 /\ last.source.parse_error /\ ~last.interpreted

Equality == { "EqualEqual", "BangEqual" }

\* The Bool an equality operator gives for operands that are equal or not.
EqualityValue(op, equal) == Bool(equal = (op = "EqualEqual"))

\* C6: `==` and `!=` on two literals of different kinds, in either order,
\* give false and true without a runtime error, and nil == nil is true.
C6_DifferentKindsCompareUnequal ==
  \A x \in Literals, y \in Literals, op \in Equality :
    (/\ RanFile(OperatorProgram(Binary(x, op, y)))
     /\ (x.value.k # y.value.k \/ x.value.k = "Nil"))
    => last.ok /\ out = << EqualityValue(op, x.value.k = y.value.k) >>

Functions == { Variable("f"), Variable("g") }

\* C7: `==` and `!=` on two function values give a Bool decided by
\* identity and no runtime error.
C7_FunctionsCompareByIdentity ==
  \A x \in Functions, y \in Functions, op \in Equality :
    RanFile(OperatorProgram(Binary(x, op, y)))
    => last.ok /\ out = << EqualityValue(op, x = y) >>

\* C8: `-x` for an x that is no number is a runtime error: the print
\* statement around it is aborted and prints nothing.
C8_NegationOfNonNumberFails ==
  \A x \in Operands :
    (/\ RanFile(OperatorProgram(Unary("Minus", x)))
     /\ (x.t = "Literal" => x.value.k # "Number"))
    => ~last.ok /\ last.e.kind = "RuntimeError" /\ out = <<>>

\* var a = a;
SelfInit == Var("a", Variable("a"))

\* `var a = a;` was run at global scope with `a` not defined before: as a
\* REPL line, or as the first statement of a file.
RanGlobalSelfInit ==
  \/ mode = "prompt" /\ nlines > 0 /\ last.source = Source(<< SelfInit >>)
       /\ "a" \notin last.pre
  \/ \E s \in Simple : RanFile(<< SelfInit, s >>)

\* `var a = a;` was run as the first statement of a block or of a
\* function body.
RanLocalSelfInit ==
  \/ \E s2 \in Simple, s3 \in Simple, s4 \in Simple :
       RanFile(<< Block(<< SelfInit, Block(<< s2, s3 >>), s4 >>) >>)
  \/ \E s2 \in Simple, s3 \in Simple :
       RanFile(<< Function("f", <<>>, << SelfInit, Block(<< s2, s3 >>) >>),
                  CallStmt("f") >>)

\* The resolver rejected the text: resolve returned Err, so nothing ran.
ResolverRejected == ~last.ok /\ ~last.interpreted /\ last.stage = "resolve"

C10_BreakNeverEscapes ==
  last.interpreted => last.e.kind # "Break"

\* C11: each of the resolver's errors is reported, makes success() false
\* and does not stop the traversal: for a file of two statements with one
\* error each, both errors are reported.
C11_ResolveErrorsAllReported ==
  \A e1 \in ResolveErrorStmts, e2 \in ResolveErrorStmts :
    RanFile(<< e1, e2 >>) =>
      /\ last.resolver.ran
      /\ last.resolver.had_error
      /\ Len(last.resolver.reported) = 2

\* Parser::parse has been run on these tokens.
RanTokens(tokens) == unit.op = "parse" /\ unit.parser.p.tokens = tokens

\* The messages the parser reported.
ParseErrors ==
  { unit.parser.p.errors[i] : i \in 1..Len(unit.parser.p.errors) }

\* C12: a call with 255 arguments and a declaration with 255 parameters
\* parse with no error; with more, the limit error is reported and
\* had_error is set, but the parser consumes the rest of the list and the
\* `)', yields the Call / Function node and does not synchronize.
C12_LimitErrorIsNotFatal ==
  \A n \in ListLengths :
    /\ RanTokens(CallTokens(n)) =>
         /\ Len(unit.parser.stmts) = 1
         /\ unit.parser.stmts[1].t = "Expression"
         /\ unit.parser.stmts[1].expression.t = "Call"
         /\ unit.parser.p.syncs = <<>>
         /\ IF n <= MaxArguments THEN ~unit.parser.p.had_error
            ELSE /\ unit.parser.p.had_error
                 /\ "Can't have more than 255 arguments" \in ParseErrors
    /\ RanTokens(FunTokens(n)) =>
         /\ Len(unit.parser.stmts) = 1
         /\ unit.parser.stmts[1].t = "Function"
         /\ unit.parser.p.syncs = <<>>
         /\ IF n <= MaxParameters THEN ~unit.parser.p.had_error
            ELSE /\ unit.parser.p.had_error
                 /\ "Can't have more than 255 parameters" \in ParseErrors
\* C13: a class declaration is accepted: no parse error is reported and
\* the first statement parse returns is the Class statement.
C13_ClassDeclarationAccepted ==
  \A tokens \in ClassPrograms :
    RanTokens(tokens) =>
      /\ ~unit.parser.p.had_error
      /\ Len(unit.parser.stmts) >= 1
      /\ unit.parser.stmts[1].t = "Class"
\* The kinds of token that start a declaration or statement.
StartsDeclaration ==
  {"Class", "Fun", "Var", "For", "If", "While", "Print", "Return"}

\* Position q of the tokens is just after a semicolon, at a token that
\* starts a declaration, or at Eof.
SynchronizationPoint(tokens, q) ==
  \/ tokens[q].ttype = "Eof"
  \/ q > 1 /\ tokens[q - 1].ttype = "Semicolon"
  \/ tokens[q].ttype \in StartsDeclaration

\* The first synchronization point after the token at `from`, the token
\* the error was raised at (Eof itself when the error is at Eof).
NextSynchronizationPoint(tokens, from) ==
  IF tokens[from].ttype = "Eof" THEN from
  ELSE CHOOSE q \in (from + 1)..Len(tokens) :
         /\ SynchronizationPoint(tokens, q)
         /\ \A j \in (from + 1)..(q - 1) : ~SynchronizationPoint(tokens, j)

\* The calls of declaration made by parse that returned Err.
FailedCalls == { i \in 1..Len(unit.parser.calls) : ~unit.parser.calls[i].ok }
\* The statements parse returned for the calls before call i.
ReturnedBefore(i) == Cardinality({ j \in 1..(i - 1) : unit.parser.calls[j].ok })
\* Where the synchronize of declaration call i started.
SynchronizedFrom(i) == unit.parser.p.syncs[unit.parser.calls[i].syncs].from

\* What C14 says of the parse of `tokens` that `unit` holds.
SynchronizedAndContinued(tokens) ==
  /\ Len(unit.parser.stmts) = Len(unit.parser.calls) - Cardinality(FailedCalls)
  /\ \A i \in FailedCalls :
       /\ unit.parser.p.had_error
       /\ unit.parser.calls[i].end
            = NextSynchronizationPoint(tokens, SynchronizedFrom(i))
       /\ SubSeq(unit.parser.stmts, ReturnedBefore(i) + 1, Len(unit.parser.stmts))
            = parse(SubSeq(tokens, unit.parser.calls[i].end, Len(tokens))).stmts
  /\ \A e \in ErroneousToSemicolon :
       tokens = e \o << T("Print"), Num(1), T("Semicolon"), T("Var"), Id("a"),
                       T("Semicolon"), T("Eof") >>
       => unit.parser.stmts = << PrintStmt(Literal(Number(1))), Var("a", NoExpr) >>

\* C14: after a parse error in a top-level declaration synchronize leaves
\* the parser at the next synchronization point (just after the next
\* semicolon, at the next token starting a declaration, or at Eof);
\* parse returns no statement for the erroneous declaration, returns the
\* statements of the declarations from the synchronization point on, and
\* success() is false.
C14_SynchronizeAndContinue ==
  unit.op = "parse" /\ unit.parser.p.tokens \in SyncPrograms =>
    SynchronizedAndContinued(unit.parser.p.tokens)

\* `print ; print 1; var a;` has been parsed: parse dropped `print ;` and
\* returned the two declarations after it.
C14_Witness ==
  /\ RanTokens(<< T("Print"), T("Semicolon"), T("Print"), Num(1), T("Semicolon"),
                  T("Var"), Id("a"), T("Semicolon"), T("Eof") >>)
  /\ FailedCalls = {1}
  /\ unit.parser.p.had_error
  /\ Len(unit.parser.stmts) = 2
\* Scanner::scan_tokens has been run on this text.
Scanned(source) == unit.op = "scan" /\ unit.scanner.s.source = source

\* The kinds and lexemes of the tokens a scan made.
TokenKinds(r) ==
  [i \in 1..Len(r.s.tokens) |-> << r.s.tokens[i].ttype, r.s.tokens[i].lexeme >>]

\* Where a block comment ends: with `depth` levels open after the first i
\* characters, the number of characters up to and including the `*/` that
\* closes the outermost level, or -1 when the text ends before.
RECURSIVE CommentEnd(_, _, _)
CommentEnd(source, i, depth) ==
  IF depth = 0 THEN i
  ELSE IF i + 2 <= Len(source) /\ source[i + 1] = "*" /\ source[i + 2] = "/"
    THEN CommentEnd(source, i + 2, depth - 1)
  ELSE IF i + 2 <= Len(source) /\ source[i + 1] = "/" /\ source[i + 2] = "*"
    THEN CommentEnd(source, i + 2, depth + 1)
  ELSE IF i >= Len(source) THEN -1
  ELSE CommentEnd(source, i + 1, depth)

\* The texts that start with `/*`.
StartsWithComment(source) ==
  Len(source) >= 2 /\ source[1] = "/" /\ source[2] = "*"

\* The scan r of a text that starts with `/*` and whose first comment
\* ends after `end` characters made the tokens of the rest of the text;
\* with end = -1 it failed with "Unterminated block comment" and made no
\* token but Eof.
ScannedAsRest(source, r, end) ==
  IF end = -1
    THEN /\ ~r.ok
         /\ r.s.errors # <<>>
         /\ r.s.errors[Len(r.s.errors)] = "Unterminated block comment"
         /\ TokenKinds(r) = << << "Eof", "" >> >>
  ELSE /\ TokenKinds(r)
            = TokenKinds(scan_tokens(SubSeq(source, end + 1, Len(source))))
       /\ r.ok = scan_tokens(SubSeq(source, end + 1, Len(source))).ok

\* C15: block comments nest.  A text that starts with `/*` is scanned as
\* the text after the `*/` that closes this comment, every comment opened
\* inside having been closed before (no token comes from the comment);
\* when the text ends with a level still open, the scan fails with
\* "Unterminated block comment" and makes no token but Eof.
C15_BlockCommentsNest ==
  unit.op = "scan" /\ StartsWithComment(unit.scanner.s.source) =>
    ScannedAsRest(unit.scanner.s.source, unit.scanner,
                  CommentEnd(unit.scanner.s.source, 2, 1))

\* `/* /* */ */ a` (without the spaces) has been scanned: the one token
\* before Eof is the identifier.
C15_Witness ==
  /\ Scanned(<<"/", "*", "/", "*", "*", "/", "*", "/", "a">>)
  /\ unit.scanner.ok
  /\ TokenKinds(unit.scanner) = << << "Identifier", "a" >>, << "Eof", "" >> >>

\* The newlines among the first n characters of a text, and the place of
\* the last of them (0 when there is none).
Newlines(source, n) == { i \in 1..n : source[i] = "\n" }
LastNewline(source, n) ==
  IF Newlines(source, n) = {} THEN 0
  ELSE CHOOSE i \in Newlines(source, n) : \A j \in Newlines(source, n) : j <= i

\* C16: every newline the scanner consumes (between tokens, in a string
\* literal, in a block comment) increments `line` and resets the column:
\* at the end of the text `line` is one more than the number of newlines
\* and the column is the number of characters after the last newline,
\* and the Eof token carries them.
C16_NewlineResetsColumn ==
  unit.op = "scan" =>
    /\ unit.scanner.s.line
         = 1 + Cardinality(Newlines(unit.scanner.s.source, unit.scanner.s.current))
    /\ unit.scanner.s.col
         = unit.scanner.s.current
             - LastNewline(unit.scanner.s.source, unit.scanner.s.current)
    /\ unit.scanner.s.tokens[Len(unit.scanner.s.tokens)].line = unit.scanner.s.line
    /\ unit.scanner.s.tokens[Len(unit.scanner.s.tokens)].col = unit.scanner.s.col
\* The global names the statements of a line define or assign.
LineWrites(source) ==
  { source.stmts[i].name :
      i \in { j \in 1..Len(source.stmts) : source.stmts[j].t \in {"Var", "Function"} } }
  \cup { source.stmts[i].expression.name :
           i \in { j \in 1..Len(source.stmts) :
                     /\ source.stmts[j].t = "Expression"
                     /\ source.stmts[j].expression.t = "Assign" } }

\* The values of the global environment.
Globals(h) == h[GlobalsId].values

\* A step of the REPL that ran a line to its end.
ReplStep ==
  mode = "prompt" /\ nlines' = nlines + 1 /\ last'.e.kind # "OutOfSteps"

\* What a REPL step keeps: the loop goes on; every global stays defined,
\* with its value unless the line writes it; a line that fails before
\* interpret changes no global; a read in the line sees the value held.
ReplStepKeeps ==
  /\ status' = "running" /\ mode' = "prompt"
  /\ \A name \in DOMAIN Globals(heap) :
       /\ name \in DOMAIN Globals(heap')
       /\ name \notin LineWrites(last'.source)
            => Globals(heap')[name] = Globals(heap)[name]
  /\ last'.stage \in {"scan", "parse", "resolve"} => Globals(heap') = Globals(heap)
  /\ "a" \in DOMAIN Globals(heap) =>
       /\ last'.source = Source(<< PrintStmt(Variable("a")) >>)
            => last'.ok /\ out' = Append(out, Globals(heap)["a"])
       /\ last'.source = Source(<< Expression(Assign("a", Lit(Number(3)))) >>)
            => last'.ok /\ Globals(heap')["a"] = Number(3)
       /\ last'.source = Source(AssignThenFail)
            => ~last'.ok /\ Globals(heap')["a"] = Number(3)
       /\ ( /\ last'.source = Source(<< PrintStmt(Call(Variable("f"), <<>>)) >>)
            /\ "f" \in DOMAIN Globals(heap) )
            => last'.ok /\ out' = Append(out, Globals(heap)["a"])

\* C17: one Interpreter serves every REPL line: a global variable or
\* function defined by a line stays defined, with its last assigned value,
\* in every later line, also after lines that fail with a scan, parse,
\* resolve or runtime error, and the loop goes on after every line.
C17_ReplStatePersists == [][ReplStep => ReplStepKeeps]_vars

\* `a` and `f` were defined, and the third line `a = 3; print b;` failed
\* with a runtime error: both are still defined, `a` holds 3 and the loop
\* goes on.
C17_Witness ==
  /\ mode = "prompt" /\ nlines = 3 /\ status = "running"
  /\ last.source = Source(AssignThenFail) /\ last.stage = "runtime"
  /\ {"a", "f"} \subseteq DOMAIN Globals(heap)
  /\ Globals(heap)["a"] = Number(3)

\* C18: Interpreter::interpret stops at the first statement that yields a
\* runtime error: the error is returned, no later statement is executed
\* (nothing more is printed, defined or assigned), and what the statements
\* before it printed, defined and assigned is kept.
C18_InterpretStopsAtFirstError ==
  \A k \in DOMAIN Effects, f \in DOMAIN Failures, after \in Afterwards :
    RanFile(FailingProgram(k, f, after)) =>
      /\ last.interpreted /\ ~last.ok
      /\ last.e = RuntimeError(Failures[f].message)
      /\ out = Effects[k].out \o Failures[f].out
      /\ DOMAIN Globals(heap)
           = {"clock"} \cup (IF Effects[k].a = NoValue THEN {} ELSE {"a"})
      /\ Effects[k].a # NoValue => Globals(heap)["a"] = Effects[k].a

\* `var a = 1; a = 2; print a; { print 5; print b; print 6; } var c = 1;
\* print 3;` has run: 2 and 5 are printed, `a` is 2, and the run failed.
C18_Witness ==
  /\ RanFile(FailingProgram(4, 3, << Var("c", Lit(Number(1))), PrintStmt(Lit(Number(3))) >>))
  /\ ~last.ok /\ out = << Number(2), Number(5) >>
  /\ Globals(heap)["a"] = Number(2)

\* The environments of the chain of unit.id that hold unit.name.
Holders ==
  { i \in 1..unit.id : unit.name \in DOMAIN unit.heap[i].values }
\* The nearest of them (each environment encloses the one before it).
Nearest == CHOOSE i \in Holders : \A j \in Holders : j <= i

\* C19: Environment::assign of a name no environment of the chain holds
\* returns the error and leaves the chain unchanged; otherwise it updates
\* the nearest environment that holds the name and nothing else, creates
\* no binding, and a get through the inner environment gives the value.
C19_AssignUpdatesNearestHolder ==
  unit.op = "assign" =>
    IF Holders = {}
      THEN ~unit.result.found /\ unit.result.heap = unit.heap
    ELSE /\ unit.result.found
         /\ unit.result.heap[Nearest].values[unit.name] = unit.value
         /\ \A i \in 1..unit.id :
              /\ DOMAIN unit.result.heap[i].values = DOMAIN unit.heap[i].values
              /\ unit.result.heap[i].enclosing = unit.heap[i].enclosing
              /\ \A n \in DOMAIN unit.heap[i].values :
                   (i # Nearest \/ n # unit.name)
                     => unit.result.heap[i].values[n] = unit.heap[i].values[n]
         /\ Environment_get(unit.result.heap, unit.id, unit.name)
              = [found |-> TRUE, v |-> unit.value]

\* `a` is assigned through an empty environment whose parent and
\* grandparent both hold it: the parent's `a` is updated, the
\* grandparent's is not.
C19_Witness ==
  /\ unit.op = "assign" /\ unit.id = 3 /\ unit.name = "a" /\ Holders = {1, 2}
  /\ unit.result.heap[2].values["a"] = Number(3)
  /\ unit.result.heap[1].values["a"] = Number(1)
  /\ DOMAIN unit.result.heap[3].values = {}

\* `a` is assigned in a chain that holds only `b`: the error, and the
\* chain is as it was.
C19_WitnessUnbound ==
  /\ unit.op = "assign" /\ unit.id = 2 /\ unit.name = "a" /\ Holders = {}
  /\ ~unit.result.found /\ unit.result.heap = unit.heap
  /\ "b" \in DOMAIN unit.heap[1].values

\* What evaluating the callee prints: t(0) prints 0.
CalleePrints(callee) == IF callee = Trace(0) THEN << Number(0) >> ELSE <<>>
\* What evaluating t(1), ..., t(n) prints.
ArgumentPrints(n) == [i \in 1..n |-> Number(i)]

\* C20: the callee and then every argument are evaluated, left to right,
\* before the call is checked; a callee that is no function yields "Can
\* only call functions and classes"; a number of arguments other than
\* the arity yields "Expected N arguments but got M" and the body is not
\* executed; an error of an argument comes before either.
C20_ArityCheckedAfterArguments ==
  \A callee \in Callees, n \in ArgumentCounts :
    /\ RanFile(CallProgram(callee, TracedArguments(n))) =>
         IF callee = Variable("f") /\ n = 1
           THEN last.ok /\ out = << Number(1), Number(9), Number(7) >>
         ELSE /\ ~last.ok
              /\ out = CalleePrints(callee) \o ArgumentPrints(n)
              /\ last.e = RuntimeError(
                    IF callee = Variable("f") THEN expected_arguments(1, n)
                    ELSE "Can only call functions and classes")
    /\ (n >= 2 /\ RanFile(CallProgram(callee, UndefinedSecond(n)))) =>
         /\ ~last.ok
         /\ out = CalleePrints(callee) \o ArgumentPrints(1)
         /\ last.e = RuntimeError("Undefined variable")

\* `f(t(1), t(2));` has run with f of one parameter: 1 and 2 are printed,
\* the body's 9 is not, and the error names both numbers.
C20_Witness ==
  /\ RanFile(CallProgram(Variable("f"), TracedArguments(2)))
  /\ out = << Number(1), Number(2) >>
  /\ last.e = RuntimeError("Expected 1 arguments but got 2")

\* `t(0)(t(1));` has run: the callee and the argument are evaluated, then
\* the call of the number 0 fails.
C20_WitnessNotCallable ==
  /\ RanFile(CallProgram(Trace(0), TracedArguments(1)))
  /\ out = << Number(0), Number(1) >>
  /\ last.e = RuntimeError("Can only call functions and classes")

\* Lox's falsey values: nil and false.
Falsey(v) == v \in { Nil, Bool(FALSE) }
\* Whether `x <op> y` needs y.
NeedsRight(x, op) == IF op = "Or" THEN Falsey(x) ELSE ~Falsey(x)

\* C21: `a or b` evaluates b only when a is falsey, `a and b` only when a
\* is truthy; the result is the value of the last operand evaluated, as
\* it is, and the side effects of b occur exactly when b is evaluated.
C21_LogicalShortCircuit ==
  \A x \in LogicalOperands, op \in LogicalOperators :
    /\ \A y \in LogicalOperands :
         RanFile(LogicalProgram(x, op, y)) =>
           /\ last.ok
           /\ out = IF NeedsRight(x, op) THEN << x, y, y >> ELSE << x, x >>
    /\ RanFile(LogicalAssignProgram(x, op)) =>
         /\ last.ok
         /\ out = IF NeedsRight(x, op) THEN << Number(2), Number(2) >>
                  ELSE << x, Number(1) >>

\* `print t(0) or t(nil);` has run: 0 is truthy, so t(nil) was not
\* called and the number 0 itself is the result.
C21_Witness ==
  /\ RanFile(LogicalProgram(Number(0), "Or", Nil))
  /\ out = << Number(0), Number(0) >>

\* C22: a call of an initializer returns the `this` bound in its closure,
\* when the body completes normally and when it executes a bare
\* `return;`; it never returns nil.
C22_InitializerReturnsThis ==
  (unit.op = "method" /\ unit.function.is_initializer) =>
    unit.ok /\ unit.v = unit.instance

\* What holds of the code: an initializer returns `this` when its body
\* completes without a return, and nil when it executes `return;`
\* (nothing after the return is executed).
C22_InitializerBody ==
  (unit.op = "method" /\ unit.function.is_initializer) =>
    /\ unit.ok
    /\ unit.v = IF unit.function.body \in { <<>>, << PrintStmt(Lit(Number(1))) >> }
                  THEN unit.instance ELSE Nil
    /\ Len(unit.out) <= 1

\* Whether the loop of the parts x comes to an end: its body is
\* `break;`, or `i` is incremented and the condition or a break of the
\* body stops it.
ForTerminates(x) ==
  \/ x.body = BreakOnly
  \/ x.increment # <<>> /\ (x.condition # <<>> \/ x.body # PrintI)
\* What it prints: every body but `break;` prints 0 and 1.
ForPrints(x) == IF x.body = BreakOnly THEN <<>> ELSE << Number(0), Number(1) >>

\* C23: Parser::for_statement makes of `for (init; cond; incr) body` the
\* tree of `{ init; while (cond) { body; incr; } }`, with `true` for an
\* omitted condition, without the inner block when there is no increment
\* and without the outer block when there is no initializer; the loop
\* runs as its desugaring does, also when the body executes break.
C23_ForIsDesugaredWhile ==
  /\ unit.op = "parse" =>
       \A x \in ForParts :
         unit.parser.p.tokens = ForTokens(x) =>
           /\ ~unit.parser.p.had_error
           /\ unit.parser.stmts = parse(DesugaredTokens(x)).stmts
           /\ Len(unit.parser.stmts) = 2
           /\ unit.parser.stmts[2].t
                = IF x.initializer = <<>> THEN "While" ELSE "Block"
  /\ (mode = "file" /\ nlines = 1 /\ Len(last.source.stmts) = 2) =>
       \A x \in ForParts :
         (ForTerminates(x) /\ RanFile(ParsedForProgram(x))) =>
           last.ok /\ status = "exited" /\ out = ForPrints(x)

\* `var i = 0; for (var i = 0; ; i = i + 1) { if (1 < i) break; print i; }`
\* has been parsed into a block of the initializer and a while loop over
\* `true` whose body is a block of the body and the increment.
C23_Witness ==
  /\ RanTokens(ForTokens([initializer |-> << T("Var"), Id("i"), T("Equal"), Num(0),
                                             T("Semicolon") >>,
                          condition |-> <<>>,
                          increment |-> << Id("i"), T("Equal"), Id("i"), T("Plus"),
                                           Num(1) >>,
                          body |-> BreakThenPrint]))
  /\ unit.parser.stmts[2].t = "Block"
  /\ unit.parser.stmts[2].statements[2].t = "While"
  /\ unit.parser.stmts[2].statements[2].condition = Literal(Bool(TRUE))
  /\ unit.parser.stmts[2].statements[2].body.statements[2]
       = Expression(Assign("i", Binary(Variable("i"), "Plus", Literal(Number(1)))))

\* The same loop has run: it printed 0 and 1 and the break ended it.
C23_WitnessRun ==
  /\ \E x \in ForParts :
       /\ x.body = BreakThenPrint /\ x.condition = <<>> /\ x.initializer # <<>>
       /\ RanFile(ParsedForProgram(x))
  /\ last.ok /\ out = << Number(0), Number(1) >>

\* C24: a return inside nested blocks and while loops of a function body
\* ends the call at once: no later statement of the body runs, no loop or
\* block catches the signal, the call gives the returned value (nil when
\* there is none), and the caller goes on; a body that completes without
\* a return gives nil.
C24_ReturnEndsTheCall ==
  /\ \A nesting \in Nestings, value \in ReturnValues :
       RanFile(ReturnProgram(nesting, value)) =>
         /\ last.ok /\ status = "exited"
         /\ out = << Number(1), IF value = NoExpr THEN Nil ELSE Number(5),
                     Number(7) >>
  /\ \A body \in NoReturnBodies :
       RanFile(NoReturnProgram(body)) =>
         /\ last.ok
         /\ out = (IF body = << PrintStmt(Lit(Number(1))) >> THEN << Number(1) >>
                   ELSE <<>>) \o << Nil, Number(7) >>

\* The function whose `return 5;` is in a block in a while loop in a
\* block has been called: 1 is printed, then the 5 it gave, then 7.
C24_Witness ==
  /\ RanFile(ReturnProgram("nested", Lit(Number(5))))
  /\ out = << Number(1), Number(5), Number(7) >>

C26_EnvironmentRestored ==
  /\ environment = GlobalsId
  /\ unit.op = "method" => unit.environment = GlobalsId
  /\ \A leaving \in Leavings :
       RanFile(RestoreProgram(leaving)) => last.ok /\ out = << Number(1) >>

\* The line `{ var c = 1; { print b; } }` failed two blocks down, and
\* the current environment is the global one again.
C26_Witness ==
  /\ mode = "prompt" /\ last.source = Source(FailsInBlocks)
  /\ last.stage = "runtime" /\ Len(heap) >= 3
  /\ environment = GlobalsId

\* C27: the resolver clears the loop context when it enters a function
\* body: a break in the body of a function declared in the body of a
\* loop, with no loop of its own around it, is reported as a resolve
\* error; the loop context of the enclosing code is back after the
\* function, so a break that follows the declaration is accepted.
C27_FunctionBodyClearsLoop ==
  /\ \A p \in BreakInLoopFunction :
       RanFile(p) => last.resolver.had_error /\ ~last.interpreted
  /\ \A p \in BreakInOwnLoop :
       RanFile(p) => ~last.resolver.had_error /\ last.interpreted /\ last.ok

\* What holds of the code: every program with a function in a loop body
\* is accepted and run, with or without a loop around the break.
C27_BreakInLoopFunctionAccepted ==
  \A p \in LoopFunctionPrograms :
    RanFile(p) => ~last.resolver.had_error /\ last.interpreted /\ last.ok

\* C28: a declaration inside braces that fails to parse is synchronized
\* once: the first call of synchronize starts where the error was found
\* and ends at the next synchronization point, no other call of
\* synchronize starts where it ended, and every well-formed statement
\* after that point is returned.
C28_SynchronizedOnce ==
  \A k \in DOMAIN NestedErrors :
    RanTokens(NestedErrors[k].tokens) =>
      /\ unit.parser.p.had_error
      /\ unit.parser.p.syncs[1].to
           = NextSynchronizationPoint(NestedErrors[k].tokens,
                                      unit.parser.p.syncs[1].from)
      /\ \A j \in 2..Len(unit.parser.p.syncs) :
           unit.parser.p.syncs[j].from # unit.parser.p.syncs[j - 1].to
      /\ unit.parser.stmts = NestedErrors[k].after

\* What holds of the code: the error is synchronized once at each level
\* of braces it is in, each call starting where the one before ended.
C28_SynchronizedAtEachLevel ==
  RanTokens(NestedErrors[2].tokens) =>
    /\ Len(unit.parser.p.syncs) >= 2
    /\ unit.parser.p.syncs[2].from = unit.parser.p.syncs[1].to
    /\ unit.parser.stmts = << PrintStmt(Literal(Number(3))) >>

\* C29: Parser::parse comes to an end on a token vector that ends in
\* Eof: every call of declaration, whether it succeeds or fails and
\* synchronizes, starts where the one before stopped and consumes at
\* least one token, and the parser stops at the Eof token, never past it.
C29_ParseTerminates ==
  unit.op = "parse" =>
    /\ unit.parser.p.current = Len(unit.parser.p.tokens)
    /\ Len(unit.parser.calls) < Len(unit.parser.p.tokens)
    /\ \A i \in DOMAIN unit.parser.calls :
         /\ unit.parser.calls[i].start < unit.parser.calls[i].end
         /\ unit.parser.calls[i].end <= Len(unit.parser.p.tokens)
         /\ unit.parser.calls[i].start
              = IF i = 1 THEN 1 ELSE unit.parser.calls[i - 1].end

\* `) ; a` has been parsed: the declaration at `)` failed and consumed
\* it and the semicolon, the one at `a` failed at Eof, and the parser is
\* at the Eof token.
C29_Witness ==
  /\ RanTokens(<< T("RightParen"), T("Semicolon"), Id("a"), T("Eof") >>)
  /\ Len(unit.parser.calls) = 2
  /\ ~unit.parser.calls[1].ok /\ unit.parser.calls[1].end = 3
  /\ ~unit.parser.calls[2].ok /\ unit.parser.calls[2].end = 4
  /\ unit.parser.p.current = 4

\* The statement of the assignment text x whose expression is `node`.
AssignmentStatement(x, node) ==
  IF x.print THEN PrintStmt(node) ELSE Expression(node)

\* C30: an expression followed by `=` that is not a Variable is reported
\* (had_error is set, with the one message) and not thrown: the statement
\* is returned with the left-hand expression as it was parsed, what follows
\* it is parsed as usual and synchronize is not run; a Variable on the
\* left gives an Assign node and no error.
C30_InvalidTargetNotFatal ==
  unit.op = "parse" =>
    \A x \in AssignmentParts :
      unit.parser.p.tokens = AssignmentTokens(x) =>
        /\ unit.parser.p.syncs = <<>>
        /\ FailedCalls = {}
        /\ IF x.left.node.t = "Variable"
             THEN /\ ~unit.parser.p.had_error
                  /\ unit.parser.p.errors = <<>>
                  /\ unit.parser.stmts
                       = << AssignmentStatement(
                              x, Assign(x.left.node.name, x.value.node)) >>
                           \o x.rest
           ELSE /\ unit.parser.p.had_error
                /\ unit.parser.p.errors = << "Invalid assignment  target." >>
                /\ unit.parser.stmts
                     = << AssignmentStatement(x, x.left.node) >> \o x.rest

\* `a + b = c; print 1;` has been parsed: one error, both statements.
C30_Witness ==
  /\ RanTokens(<< Id("a"), T("Plus"), Id("b"), T("Equal"), Id("c"),
                  T("Semicolon"), T("Print"), Num(1), T("Semicolon"), T("Eof") >>)
  /\ unit.parser.p.had_error
  /\ unit.parser.p.syncs = <<>>
  /\ Len(unit.parser.stmts) = 2
  /\ unit.parser.stmts[1].t = "Expression"
  /\ unit.parser.stmts[1].expression.t = "Binary"

\* `a = c;` has been parsed: an Assign node, no error.
C30_WitnessVariable ==
  /\ RanTokens(<< Id("a"), T("Equal"), Id("c"), T("Semicolon"), T("Eof") >>)
  /\ ~unit.parser.p.had_error
  /\ unit.parser.stmts = << Expression(Assign("a", Variable("c"))) >>

====
